---- MODULE Spec2Model ----
(***************************************************************************)
(* uap: the dependency index and the step ordering of include/pipeline.py  *)
(* and the child-process pool of include/process_pool.py.                  *)
(*                                                                         *)
(* Several objects share this module.  Each has its own variables and its  *)
(* own specifications; the variables of the others stay at their           *)
(* constructor values.                                                     *)
(*   SpecIndex  - Pipeline.add_file_dependencies / add_task_for_*_file     *)
(*   SpecBuild  - the ordering stage of Pipeline.build_steps               *)
(*   SpecLaunch - ProcessPool: registration and _launch_all_processes      *)
(*   SpecExit   - SpecLaunch, with a with block that may end by raising    *)
(*   SpecWait   - ProcessPool._wait and the rest of __exit__               *)
(*   SpecWaitFair - _wait for one Pipeline, with the steps that happen on  *)
(*                their own made fair                                      *)
(*   SpecCopy   - the stream listener of _do_launch_copy_process           *)
(*   SpecPing   - Pipeline.check_ping_files                                *)
(*   SpecTasks  - the task collection of Pipeline.__init__ and             *)
(*                Pipeline.get_task_with_list                              *)
(*   SpecDetect - Pipeline.autodetect_cluster_type                         *)
(*   SpecOption - Pipeline.get_cluster_command_cli_option                  *)
(*   SpecTools  - Pipeline.check_tools                                     *)
(*   SpecTool   - check_tool and exec_pre_post_calls                       *)
(*   SpecExecGroup - the exec group of SegemehlGenerateIndex.runs          *)
(*   SpecChrom  - the cellmarkfiletable of ChromHmmBinarizeBam.runs        *)
(*   SpecKeys   - the step keys of Pipeline.build_steps                    *)
(***************************************************************************)
EXTENDS Integers, Sequences, FiniteSets, TLC

VARIABLES
    \* ---- Pipeline: dependency index (pipeline.py 341-379) ----
    file_dependencies,          \* dict: output path -> set of input paths
    file_dependencies_reverse,  \* dict: input path  -> set of output paths
    task_id_for_output_file,    \* dict: output path -> task id
    output_files_for_task_id,   \* dict: task id     -> set of output paths
    task_ids_for_input_file,    \* dict: input path  -> set of task ids
    input_files_for_task_id,    \* dict: task id     -> set of input paths
    index_call,                 \* the last call: what it was given, whether it raised
    index_calls,                \* number of calls made so far
    \* ---- Pipeline.build_steps (pipeline.py 592-672) ----
    steps,                      \* the configured step names (keys of self.steps)
    dependencies,               \* step name -> names of step.dependencies
    step_type,                  \* step name -> step.get_step_type()
    unassigned_steps,
    assigned_steps,
    topological_step_order,
    build_rounds,               \* history: the next_steps list of every round
    build_pc,                   \* "idle" | "sort" | "finalized" | "raised"
    build_error,                \* the UAPError raised, or NoError
    \* ---- ProcessPool (process_pool.py 59-88) ----
    launch_calls,               \* the registered calls: commands and Pipelines
    running_procs,              \* pids not yet reaped by _wait
    proc_order,                 \* pids in launch order
    proc_details,               \* dict: pid -> process info
    pool_pc,                    \* "idle" | "body" | "launch" | "wait" | "returned" | "raised"
    \* locals of _launch_all_processes
    launch_pos,                 \* index of the call the for loop is at
    launch_index,               \* index of the next command of the current Pipeline
    use_stdin,                  \* read end of the previous command's pipe, or None
    last_pid,                   \* pid of the previous command of the Pipeline, or None
    \* locals of _wait and the alarm it arms
    something_went_wrong,
    wait_error,                 \* the exception that ended _wait, or NoException
    alarm,                      \* seconds until SIGALRM, 0 when no alarm is armed
    \* the operating system's side
    child_state,                \* dict: pid -> "running" | "exited" | "reaped"
    child_stdin,                \* dict: command pid -> pipe it reads, or None
    listener_pipe,              \* dict: listener pid -> pipe it writes, or None
    pipes,                      \* number of pipes made by os.pipe()
    signals_sent,               \* the (pid, signal) pairs given to os.kill
    alarm_expired,              \* history: SIGALRM was delivered
    \* temporary files (process_pool.py 67, 86) and open pipe ends
    temp_paths,                 \* list of the paths handed out; a path is its ordinal
    copy_process_reports,       \* dict: listener pid -> path of its report
    existing_paths,             \* the temporary paths that exist on disk
    pipe_read_fds,              \* dict: pipe -> processes holding its read end open
    exit_type,                  \* the exception __exit__ was called with, or NoException
    \* ---- a stream listener (process_pool.py 244-310) ----
    stream,                     \* the bytes the listened-to command writes in all
    fin_pos,                    \* number of bytes of stream read so far
    has_sink,                   \* fout_path is not None
    has_pipe,                   \* pipe is not None
    checksum,                   \* the bytes given to checksum.update, in order
    tail,
    length,
    newline_count,
    sink_written,               \* the bytes written to fdout, in order
    pipe_written,               \* the bytes written to pipe[1], in order
    report,                     \* the report written, or NoReport
    copy_pc,                    \* "idle" | "read" | "eof" | "exit0" | "exit1" | "exit2"
    \* ---- Pipeline.check_ping_files (pipeline.py 861-1019) ----
    cluster_config,             \* the command table of the selected cluster type
    stat_result,                \* what running the stat command gives
    ping_files,                 \* task -> its ping files on disk
    print_more_warnings,
    fix_problems,
    check_queue,
    running_jids,
    run_problems,
    queue_problems,
    bad_problems,
    task_pos,                   \* index of the task the for loop is at
    unlinked,                   \* the paths given to os.unlink
    warned,                     \* the "cannot check stale queued ping files" warning was printed
    no_problems_printed,        \* 'No problematic ping files were found.' was printed
    ping_error,                 \* the exception check_ping_files ended with, or NoException
    ping_pc,                    \* "idle" | "stat" | "warn" | "parse" | "tasks" | "fix" | "done" | "raised"
    \* ---- the task collection (pipeline.py 428-450), get_task_with_list ----
    runs,                       \* step name -> run id -> number of exec groups
    all_tasks_topologically_sorted,
    tasks_in_step,
    task_for_task_id,
    collect_pos,                \* index of the step the outer for loop is at
    specified_tasks,            \* self.args.run
    exclusive,
    task_wish_list,             \* what get_task_with_list returned
    tasks_error,
    tasks_pc,                   \* "idle" | "collect" | "constructed" | "returned" | "raised"
    \* ---- Pipeline.autodetect_cluster_type (pipeline.py 1038-1065) ----
    cluster_table,              \* the cluster types of the command table, in its order
    detect_pos,                 \* index of the cluster type the for loop is at
    detect_result,              \* the value returned
    detect_warned,
    detect_error,
    detect_pc,                  \* "idle" | "loop" | "returned" | "raised"
    \* ---- Pipeline.get_cluster_command_cli_option (pipeline.py 1095-1116) ----
    option_entry,               \* the entry of the command table
    option_value,               \* the value, a tuple
    option_result,
    option_error,
    option_pc,                  \* "idle" | "call" | "returned" | "raised"
    \* ---- Pipeline.check_tools (pipeline.py 729-765) ----
    tools,                      \* the keys of self.config['tools']
    tool_state,                 \* tool -> where its check is
    tool_versions,
    pool_state,                 \* "none" | "open" | "terminated" | "joined"
    max_in_progress,            \* history: the most checks ever running at once
    tools_error,
    tools_pc,                   \* "idle" | "loop" | "returned" | "raised"
    \* ---- check_tool (pipeline.py 133-201) ----
    tool_info,                  \* the keys of the tool's configuration
    expected_exit_code,
    tool_calls,                 \* history: the commands run, in order
    tool_check_info,            \* the keys of the dict returned
    tool_step,                  \* index of the next pre or post key
    tool_error,
    tool_pc                     \* "idle" | "pre" | "probe" | "post" | "returned" | "raised"

indexVars == <<file_dependencies, file_dependencies_reverse,
               task_id_for_output_file, output_files_for_task_id,
               task_ids_for_input_file, input_files_for_task_id,
               index_call, index_calls>>

buildVars == <<steps, dependencies, step_type, unassigned_steps,
               assigned_steps, topological_step_order, build_rounds,
               build_pc, build_error>>

poolVars == <<launch_calls, running_procs, proc_order, proc_details, pool_pc,
              launch_pos, launch_index, use_stdin, last_pid,
              something_went_wrong, wait_error, alarm,
              child_state, child_stdin, listener_pipe, pipes, signals_sent,
              alarm_expired, temp_paths, copy_process_reports, existing_paths,
              pipe_read_fds, exit_type>>

copyVars == <<stream, fin_pos, has_sink, has_pipe, checksum, tail, length,
              newline_count, sink_written, pipe_written, report, copy_pc>>

pingVars == <<cluster_config, stat_result, ping_files, print_more_warnings,
              fix_problems, check_queue, running_jids, run_problems,
              queue_problems, bad_problems, task_pos, unlinked, warned,
              no_problems_printed, ping_error, ping_pc>>

taskVars == <<runs, all_tasks_topologically_sorted, tasks_in_step,
              task_for_task_id, collect_pos, specified_tasks, exclusive,
              task_wish_list, tasks_error, tasks_pc>>

detectVars == <<cluster_table, detect_pos, detect_result, detect_warned,
                detect_error, detect_pc>>

optionVars == <<option_entry, option_value, option_result, option_error,
                option_pc>>

toolsVars == <<tools, tool_state, tool_versions, pool_state, max_in_progress,
               tools_error, tools_pc>>

toolVars == <<tool_info, expected_exit_code, tool_calls, tool_check_info,
              tool_step, tool_error, tool_pc>>

VARIABLES
    \* ---- SegemehlGenerateIndex.runs and its exec group ----
    refseq,                     \* list: the reference sequence files, each its size in blocks
    database_splits,            \* segemehl takes the --database argument apart at spaces
    strict,                     \* a command is started only after the one before it has ended
    exec_group,                 \* list: the commands given to add_command
    n_started,                  \* number of commands started so far
    cmd_pc,                     \* list: per started command "running" | "exited" | "failed"
    cmd_phase,                  \* list: per started command, its place in its plan
    cmd_open,                   \* list: per started command, the path of its step is open
    cmd_left,                   \* list: per started command, blocks it has yet to write
    path_kind,                  \* dict: path -> "none" | "fifo" | "file"
    exec_pc,                    \* "idle" | "declare" | "exec" | "done"
    \* ---- ChromHmmBinarizeBam.runs (chromhmm_binarizebam.py 195-296) ----
    connections_files,          \* dict: run id -> its in/alignments files
    cell_mark_lines,            \* list: cell_mark_files[run_id], a line is a list
    line_pos,                   \* index of the next line of the loop
    input_files,                \* list of files
    cellmarkfiletable,          \* list of rows, a row is a list of columns
    pre_chromhmm,               \* list: the commands of the exec group
    chrom_pc,                   \* "idle" | "lines" | "done"
    \* ---- Pipeline.build_steps, step one (pipeline.py 592-628) ----
    config_steps,               \* list: the keys of config['steps'], a key is a list of tokens
    key_pos,                    \* index of the next key of the loop
    step_objects,               \* dict self.steps: step name -> the step made for it
    keys_pc,                    \* "idle" | "keys" | "done" | "raised"
    keys_error                  \* the message of the UAPError raised

execVars == <<refseq, database_splits, strict, exec_group, n_started, cmd_pc,
              cmd_phase, cmd_open, cmd_left, path_kind, exec_pc>>

chromVars == <<connections_files, cell_mark_lines, line_pos, input_files,
               cellmarkfiletable, pre_chromhmm, chrom_pc>>

keysVars == <<config_steps, key_pos, step_objects, keys_pc, keys_error>>

\* the variables of the steps and of step one of build_steps
stepVars == <<execVars, chromVars, keysVars>>

\* the variables of the objects added last
laterVars == <<taskVars, detectVars, optionVars, toolsVars, toolVars, stepVars>>

vars == <<indexVars, buildVars, poolVars, copyVars, pingVars, laterVars>>

(***************************************************************************)
(* Python dicts are functions with a finite domain.                        *)
(***************************************************************************)
EmptyDict == <<>>

DictSet(d, k, v) == [x \in (DOMAIN d) \cup {k} |-> IF x = k THEN v ELSE d[x]]

\* d.setdefault-and-add: "if k not in d: d[k] = set()" then "d[k].add(v)"
DictAdd(d, k, v) == DictSet(d, k, (IF k \in DOMAIN d THEN d[k] ELSE {}) \cup {v})

(***************************************************************************)
(* The dependency index.                                                   *)
(***************************************************************************)
Paths == {"a.txt", "b.txt", "foo.bam"}

TaskIds == {"A/r1", "B/r1"}

MaxInputs == 2

MaxIndexCalls == 4

NoTask == ""

\* what a dict lookup d.get(k, default) gives
DictGet(d, k, default) == IF k \in DOMAIN d THEN d[k] ELSE default

NoCall == [op |-> "none", path |-> "", task |-> NoTask, inputs |-> {},
           known |-> FALSE, owner |-> NoTask, raised |-> FALSE]

IndexInit ==
    /\ file_dependencies = EmptyDict
    /\ file_dependencies_reverse = EmptyDict
    /\ task_id_for_output_file = EmptyDict
    /\ output_files_for_task_id = EmptyDict
    /\ task_ids_for_input_file = EmptyDict
    /\ input_files_for_task_id = EmptyDict
    /\ index_call = NoCall
    /\ index_calls = 0

\* a version of the guard that never finds the path
OutputFileNeverKnown(output_path) == FALSE

\* the guard of add_task_for_output_file: the path already has an owner
OutputFileKnown(output_path) == output_path \in DOMAIN task_id_for_output_file

\* the guard of add_file_dependencies
DependencyKnown(output_path) == output_path \in DOMAIN file_dependencies

\* a version that starts the set of an input path anew
AddReverseAnew(rev, input_paths, output_path) ==
    [x \in (DOMAIN rev) \cup input_paths |->
        IF x \in input_paths THEN {output_path} ELSE rev[x]]

RECURSIVE AddReverse(_, _, _)
AddReverse(rev, input_paths, output_path) ==
    IF input_paths = {} THEN rev
    ELSE LET inpath == CHOOSE p \in input_paths : TRUE
         IN  AddReverse(DictAdd(rev, inpath, output_path),
                        input_paths \ {inpath}, output_path)

add_file_dependencies(output_path, input_paths) ==
    /\ index_calls < MaxIndexCalls
    /\ index_calls' = index_calls + 1
    /\ index_call' = [op |-> "deps", path |-> output_path, task |-> NoTask,
                      inputs |-> input_paths,
                      known |-> output_path \in DOMAIN file_dependencies,
                      owner |-> NoTask,
                      raised |-> DependencyKnown(output_path)]
    /\ IF DependencyKnown(output_path)
       THEN UNCHANGED <<file_dependencies, file_dependencies_reverse>>
       ELSE /\ file_dependencies' =
                   DictSet(file_dependencies, output_path, input_paths)
            /\ file_dependencies_reverse' =
                   AddReverse(file_dependencies_reverse, input_paths, output_path)
    /\ UNCHANGED <<task_id_for_output_file, output_files_for_task_id,
                   task_ids_for_input_file, input_files_for_task_id>>
    /\ UNCHANGED <<buildVars, poolVars, copyVars, pingVars, laterVars>>

add_task_for_output_file(output_path, task_id) ==
    /\ index_calls < MaxIndexCalls
    /\ index_calls' = index_calls + 1
    /\ index_call' = [op |-> "output", path |-> output_path, task |-> task_id,
                      inputs |-> {},
                      known |-> output_path \in DOMAIN task_id_for_output_file,
                      owner |-> DictGet(task_id_for_output_file, output_path, NoTask),
                      raised |-> OutputFileKnown(output_path)]
    /\ IF OutputFileKnown(output_path)
       THEN UNCHANGED <<task_id_for_output_file, output_files_for_task_id>>
       ELSE /\ task_id_for_output_file' =
                   DictSet(task_id_for_output_file, output_path, task_id)
            /\ output_files_for_task_id' =
                   DictAdd(output_files_for_task_id, task_id, output_path)
    /\ UNCHANGED <<file_dependencies, file_dependencies_reverse,
                   task_ids_for_input_file, input_files_for_task_id>>
    /\ UNCHANGED <<buildVars, poolVars, copyVars, pingVars, laterVars>>

add_task_for_input_file(input_path, task_id) ==
    /\ index_calls < MaxIndexCalls
    /\ index_calls' = index_calls + 1
    /\ index_call' = [op |-> "input", path |-> input_path, task |-> task_id,
                      inputs |-> {}, known |-> FALSE, owner |-> NoTask,
                      raised |-> FALSE]
    /\ task_ids_for_input_file' = DictAdd(task_ids_for_input_file, input_path, task_id)
    /\ input_files_for_task_id' = DictAdd(input_files_for_task_id, task_id, input_path)
    /\ UNCHANGED <<file_dependencies, file_dependencies_reverse,
                   task_id_for_output_file, output_files_for_task_id>>
    /\ UNCHANGED <<buildVars, poolVars, copyVars, pingVars, laterVars>>

InputSets == {s \in SUBSET Paths : Cardinality(s) <= MaxInputs}

IndexNext ==
    \/ \E p \in Paths, ins \in InputSets : add_file_dependencies(p, ins)
    \/ \E p \in Paths, t \in TaskIds : add_task_for_output_file(p, t)
    \/ \E p \in Paths, t \in TaskIds : add_task_for_input_file(p, t)

(***************************************************************************)
(* misc.natsorted: sorted(l, key = alphanum_key), the key of a name being  *)
(* its maximal runs of digits read as integers and the text between them   *)
(* (always text, number, text, ..., text).  Names are sequences of         *)
(* one-character strings.                                                  *)
(***************************************************************************)
Digits == <<"0", "1", "2", "3", "4", "5", "6", "7", "8", "9">>

Alphabet == <<"_", "a", "s", "t">>

IsDigit(c) == \E i \in DOMAIN Digits : Digits[i] = c

DigitVal(c) == (CHOOSE i \in DOMAIN Digits : Digits[i] = c) - 1

CharCode(c) == CHOOSE i \in DOMAIN Alphabet : Alphabet[i] = c

RECURSIVE IntOf(_)
IntOf(run) ==
    IF run = <<>> THEN 0
    ELSE IntOf(SubSeq(run, 1, Len(run) - 1)) * 10 + DigitVal(run[Len(run)])

RECURSIVE RunLen(_, _, _)
RunLen(name, i, digit) ==
    IF i > Len(name) \/ IsDigit(name[i]) # digit THEN 0
    ELSE 1 + RunLen(name, i + 1, digit)

RECURSIVE AlphanumKeyFrom(_, _, _)
AlphanumKeyFrom(name, i, digit) ==
    LET n   == RunLen(name, i, digit)
        run == SubSeq(name, i, i + n - 1)
    IN  IF digit THEN <<IntOf(run)>> \o AlphanumKeyFrom(name, i + n, FALSE)
        ELSE IF i + n > Len(name) THEN <<run>>
        ELSE <<run>> \o AlphanumKeyFrom(name, i + n, TRUE)

AlphanumKey(name) == AlphanumKeyFrom(name, 1, FALSE)

\* str < str of Python, on the characters of Alphabet
TextLess(a, b) ==
    \E k \in 1..(Len(a) + 1) :
        /\ \A j \in 1..(k - 1) : j <= Len(b) /\ a[j] = b[j]
        /\ \/ k = Len(a) + 1 /\ Len(b) >= k
           \/ k <= Len(a) /\ k <= Len(b) /\ CharCode(a[k]) < CharCode(b[k])

\* list < list of Python, on two keys: odd places hold text, even places integers
KeyLess(a, b) ==
    \E k \in 1..(Len(a) + 1) :
        /\ \A j \in 1..(k - 1) : j <= Len(b) /\ a[j] = b[j]
        /\ \/ k = Len(a) + 1 /\ Len(b) >= k
           \/ /\ k <= Len(a)
              /\ k <= Len(b)
              /\ IF k % 2 = 1 THEN TextLess(a[k], b[k]) ELSE a[k] < b[k]

\* the names the model sorts, and alphanum_key(a) < alphanum_key(b) on them
SortedNames == {<<"s", "1">>, <<"s", "2">>, <<"s", "1", "0">>, <<"s", "0", "1">>}

NatLess ==
    {ab \in SortedNames \X SortedNames :
        KeyLess(AlphanumKey(ab[1]), AlphanumKey(ab[2]))}

\* the lists natsorted may return for a list holding the elements of S: each
\* starts with an element no other is smaller than.  The sort is stable, so
\* names of equal key keep the order the caller's iteration over its set
\* gave them, which is any order.
RECURSIVE natsorted(_)
natsorted(S) ==
    IF S = {} THEN {<<>>}
    ELSE UNION {{<<x>> \o rest : rest \in natsorted(S \ {x})} :
                   x \in {m \in S : \A y \in S : <<y, m>> \notin NatLess}}

(***************************************************************************)
(* Pipeline.build_steps, from "step three: perform topological sort".      *)
(* Steps one and two have instantiated the steps and resolved every name   *)
(* of every _depends list (an undefined name raises before this point).    *)
(***************************************************************************)
StepNames == SortedNames

StepTypes == {"source_controller", "step"}

MaxDepends == 3

\* a UAPError: its format string and the values interpolated into it
NoError == [msg |-> "", args |-> {}]

\* a version of the cycle error that names the steps
CycleErrorNamingSteps ==
    [msg |-> "There is a cycle in the step dependencies: %s.", args |-> SortedNames]

CycleError == [msg |-> "There is a cycle in the step dependencies.", args |-> {}]

\* the sets of at most n (step, parent) pairs over the steps S
RECURSIVE DependsSets(_, _)
DependsSets(S, n) ==
    IF n = 0 THEN {{}}
    ELSE LET less == DependsSets(S, n - 1)
         IN  less \cup {E \cup {e} : E \in less, e \in S \X S}

BuildInit ==
    /\ steps \in SUBSET StepNames
    /\ \E E \in DependsSets(steps, MaxDepends) :
          dependencies = [s \in steps |-> {d \in steps : <<s, d>> \in E}]
    /\ step_type \in [steps -> StepTypes]
    /\ unassigned_steps = steps
    /\ assigned_steps = {}
    /\ topological_step_order = <<>>
    /\ build_rounds = <<>>
    /\ build_pc = "sort"
    /\ build_error = NoError

\* a version of is_ready that is content with one assigned dependency
IsReadyAnyParent(step_name) ==
    \/ dependencies[step_name] = {}
    \/ \E dep_name \in dependencies[step_name] : dep_name \in assigned_steps

\* a version of is_ready that does not look at a step's dependency on itself
IsReadyButForSelf(step_name) ==
    \A dep_name \in dependencies[step_name] \ {step_name} : dep_name \in assigned_steps

\* "is_ready": every dependency of the step is already assigned
IsReady(step_name) ==
    \A dep_name \in dependencies[step_name] : dep_name \in assigned_steps

ReadySteps == {step_name \in unassigned_steps : IsReady(step_name)}

\* a version of the loop without the source_controller branch
NextStepsOfAnyType == natsorted(ReadySteps)

\* The lists the for loop over unassigned_steps can leave in next_steps.  The
\* loop visits the set in an arbitrary order; the first ready
\* source_controller it meets replaces the list and ends the loop.
NextSteps ==
    IF \E s \in ReadySteps : step_type[s] = "source_controller"
    THEN {<<s>> : s \in {r \in ReadySteps : step_type[r] = "source_controller"}}
    ELSE natsorted(ReadySteps)

Range(seq) == {seq[i] : i \in DOMAIN seq}

\* one round of the while loop that places steps
BuildRound ==
    /\ build_pc = "sort"
    /\ unassigned_steps # {}
    /\ \E next_steps \in NextSteps :
        /\ Len(next_steps) # 0
        /\ topological_step_order' = topological_step_order \o next_steps
        /\ assigned_steps' = assigned_steps \cup Range(next_steps)
        /\ unassigned_steps' = unassigned_steps \ Range(next_steps)
        /\ build_rounds' = Append(build_rounds, next_steps)
    /\ UNCHANGED <<steps, dependencies, step_type, build_pc, build_error>>
    /\ UNCHANGED <<indexVars, poolVars, copyVars, pingVars, laterVars>>

\* the round that finds no step ready: raise UAPError
BuildCycle ==
    /\ build_pc = "sort"
    /\ unassigned_steps # {}
    /\ \E next_steps \in NextSteps : Len(next_steps) = 0
    /\ build_pc' = "raised"
    /\ build_error' = CycleError
    /\ UNCHANGED <<steps, dependencies, step_type, unassigned_steps,
                   assigned_steps, topological_step_order, build_rounds>>
    /\ UNCHANGED <<indexVars, poolVars, copyVars, pingVars, laterVars>>

\* the loop ends, step four finalizes every step, build_steps returns
BuildFinalize ==
    /\ build_pc = "sort"
    /\ unassigned_steps = {}
    /\ build_pc' = "finalized"
    /\ UNCHANGED <<steps, dependencies, step_type, unassigned_steps,
                   assigned_steps, topological_step_order, build_rounds,
                   build_error>>
    /\ UNCHANGED <<indexVars, poolVars, copyVars, pingVars, laterVars>>

BuildNext == BuildRound \/ BuildCycle \/ BuildFinalize

(***************************************************************************)
(* ProcessPool: registering calls and launching them.                      *)
(*                                                                         *)
(* A pid is the ordinal of the process in launch order.  A pipe is the     *)
(* ordinal of the os.pipe() call that made it; None is 0.                  *)
(***************************************************************************)
None == 0

MaxCalls == 2

MaxCommands == 3

NoException == ""

PoolInit ==
    /\ launch_calls = <<>>
    /\ running_procs = {}
    /\ proc_order = <<>>
    /\ proc_details = EmptyDict
    /\ launch_pos = 1
    /\ launch_index = 0
    /\ use_stdin = None
    /\ last_pid = None
    /\ something_went_wrong = FALSE
    /\ wait_error = NoException
    /\ alarm = 0
    /\ child_state = EmptyDict
    /\ child_stdin = EmptyDict
    /\ listener_pipe = EmptyDict
    /\ pipes = 0
    /\ signals_sent = {}
    /\ alarm_expired = FALSE
    /\ temp_paths = <<>>
    /\ copy_process_reports = EmptyDict
    /\ existing_paths = {}
    /\ pipe_read_fds = EmptyDict
    /\ exit_type = NoException

\* after ProcessPool.__init__, outside any with block
PoolIdle == PoolInit /\ pool_pc = "idle"

\* inside "with ProcessPool(step) as pool:"
LaunchInit == PoolInit /\ pool_pc = "body"

RECURSIVE SumCommands(_)
SumCommands(calls) ==
    IF calls = <<>> THEN 0
    ELSE calls[Len(calls)].append_calls + SumCommands(SubSeq(calls, 1, Len(calls) - 1))

launchUnchanged ==
    UNCHANGED <<running_procs, proc_order, proc_details, launch_pos, launch_index,
                use_stdin, last_pid, something_went_wrong, wait_error, alarm,
                child_state, child_stdin, listener_pipe, pipes, signals_sent,
                alarm_expired, temp_paths, copy_process_reports, existing_paths,
                pipe_read_fds, exit_type, indexVars, buildVars, copyVars, pingVars, laterVars>>

\* pool.launch(args): a command on its own
launch ==
    /\ pool_pc = "body"
    /\ Len(launch_calls) < MaxCalls
    /\ SumCommands(launch_calls) < MaxCommands
    /\ launch_calls' = Append(launch_calls, [class |-> "dict", append_calls |-> 1])
    /\ UNCHANGED pool_pc
    /\ launchUnchanged

\* ProcessPool.Pipeline(pool): registers itself with no command yet
Pipeline_init ==
    /\ pool_pc = "body"
    /\ Len(launch_calls) < MaxCalls
    /\ launch_calls' = Append(launch_calls, [class |-> "Pipeline", append_calls |-> 0])
    /\ UNCHANGED pool_pc
    /\ launchUnchanged

\* pipeline.append(args)
Pipeline_append(i) ==
    /\ pool_pc = "body"
    /\ launch_calls[i].class = "Pipeline"
    /\ SumCommands(launch_calls) < MaxCommands
    /\ launch_calls' = [launch_calls EXCEPT ![i].append_calls = @ + 1]
    /\ UNCHANGED pool_pc
    /\ launchUnchanged

\* the with block ends without an exception: __exit__ starts launching
Pool_exit ==
    /\ pool_pc = "body"
    /\ pool_pc' = "launch"
    /\ UNCHANGED launch_calls
    /\ launchUnchanged

\* the with block ends with an exception: __exit__(type, value, traceback)
\* is called with it, reads none of its three arguments and goes on as after
\* a body that ended normally
Pool_exit_raised ==
    /\ pool_pc = "body"
    /\ pool_pc' = "launch"
    /\ exit_type' = "Exception"
    /\ UNCHANGED <<launch_calls, running_procs, proc_order, proc_details,
                   launch_pos, launch_index, use_stdin, last_pid,
                   something_went_wrong, wait_error, alarm, child_state,
                   child_stdin, listener_pipe, pipes, signals_sent,
                   alarm_expired, temp_paths, copy_process_reports,
                   existing_paths, pipe_read_fds, indexVars, buildVars,
                   copyVars, pingVars, laterVars>>

\* a version that also keeps the stdout of the last command open
KeepStdoutOpenAlways(index, calls) == TRUE

\* "index < len(pipeline.append_calls) - 1"
KeepStdoutOpen(index, calls) == index < calls - 1

\* proc_details[pid] of a command; `call` and `index` stand for its args:
\* they say which registered command it is
CommandDetails(pid, call, index, stdin_of) ==
    IF stdin_of = None
    THEN [pid |-> pid, call |-> call, index |-> index]
    ELSE [pid |-> pid, call |-> call, index |-> index, use_stdin_of |-> stdin_of]

\* proc_details[pid] of a stream listener
ListenerDetails(pid, parent_pid, which) ==
    [pid |-> pid, listener_for |-> <<parent_pid, which>>]

\* the pool's own process, as a holder of file descriptors: no child has
\* this pid
Pool == 0

\* get_temporary_path / get_temporary_fifo: the step hands out a path not
\* handed out before, the pool notes it in temp_paths
get_temporary_path(paths) == Append(paths, Len(paths) + 1)

\* _do_launch(info, keep_stdout_open, stdin), for the command at place
\* `index` of call `call`: Popen the command, make the pipe, fork the stdout
\* and the stderr listener.  `stdin_of` is what _launch_all_processes notes
\* as use_stdin_of afterwards.
\*
\* File descriptors: Popen passes `stdin` to the command and leaves the
\* pool's copy open; close_fds is off and fork copies descriptors, so every
\* process started later holds the read end of every pipe the pool still
\* holds.  The stdout listener closes pipe[0], the stderr listener (pipe is
\* None for it) closes neither end, the pool closes pipe[1] only.
do_launch(call, index, keep_stdout_open, stdin, stdin_of) ==
    LET pid    == Len(proc_order) + 1
        out    == pid + 1
        err    == pid + 2
        pipe   == IF keep_stdout_open THEN pipes + 1 ELSE None
    IN  /\ running_procs' = running_procs \cup {pid, out, err}
        /\ proc_order' = proc_order \o <<pid, out, err>>
        /\ proc_details' =
              DictSet(DictSet(DictSet(proc_details,
                  pid, CommandDetails(pid, call, index, stdin_of)),
                  out, ListenerDetails(out, pid, "stdout")),
                  err, ListenerDetails(err, pid, "stderr"))
        /\ child_state' =
              DictSet(DictSet(DictSet(child_state, pid, "running"),
                  out, "running"), err, "running")
        /\ child_stdin' = DictSet(child_stdin, pid, stdin)
        /\ listener_pipe' = DictSet(DictSet(listener_pipe, out, pipe), err, None)
        /\ pipes' = IF keep_stdout_open THEN pipes + 1 ELSE pipes
        /\ temp_paths' = get_temporary_path(get_temporary_path(temp_paths))
        /\ copy_process_reports' =
              DictSet(DictSet(copy_process_reports,
                  out, Len(temp_paths) + 1), err, Len(temp_paths) + 2)
        /\ pipe_read_fds' =
              LET inherited == [p \in DOMAIN pipe_read_fds |->
                                   IF Pool \in pipe_read_fds[p]
                                   THEN pipe_read_fds[p] \cup {pid, out, err}
                                   ELSE pipe_read_fds[p]]
              IN  IF keep_stdout_open
                  THEN DictSet(inherited, pipe, {Pool, err})
                  ELSE inherited
        /\ use_stdin' = pipe
        /\ last_pid' = pid

launchRest ==
    UNCHANGED <<launch_calls, pool_pc, something_went_wrong, wait_error, alarm,
                signals_sent, alarm_expired, existing_paths, exit_type, indexVars, buildVars, copyVars, pingVars, laterVars>>

\* a version of the launch loop that starts a process only when every
\* process started before it has exited
LaunchAfterChildrenExited ==
    \A pid \in DOMAIN child_state : child_state[pid] # "running"

\* what the for loop of _launch_all_processes waits for between two
\* launches: nothing, Popen and fork return at once
LaunchMayProceed == TRUE

\* _launch_all_processes, one call that is a plain command
LaunchCommand ==
    /\ pool_pc = "launch"
    /\ LaunchMayProceed
    /\ launch_pos <= Len(launch_calls)
    /\ launch_calls[launch_pos].class = "dict"
    /\ do_launch(launch_pos, 0, FALSE, None, None)
    /\ launch_pos' = launch_pos + 1
    /\ UNCHANGED launch_index
    /\ launchRest

\* _launch_all_processes, reaching a Pipeline: "use_stdin = None; last_pid = None"
LaunchPipelineBegin ==
    /\ pool_pc = "launch"
    /\ launch_pos <= Len(launch_calls)
    /\ launch_calls[launch_pos].class = "Pipeline"
    /\ launch_index = 0
    /\ launch_calls[launch_pos].append_calls > 0
    /\ LaunchMayProceed
    /\ do_launch(launch_pos, 0,
                 KeepStdoutOpen(0, launch_calls[launch_pos].append_calls),
                 None, None)
    /\ launch_index' = 1
    /\ UNCHANGED launch_pos
    /\ launchRest

\* _launch_all_processes, a further command of the current Pipeline
LaunchPipelineCommand ==
    /\ pool_pc = "launch"
    /\ launch_pos <= Len(launch_calls)
    /\ launch_calls[launch_pos].class = "Pipeline"
    /\ launch_index > 0
    /\ launch_index < launch_calls[launch_pos].append_calls
    /\ LaunchMayProceed
    /\ do_launch(launch_pos, launch_index,
                 KeepStdoutOpen(launch_index, launch_calls[launch_pos].append_calls),
                 use_stdin, last_pid)
    /\ launch_index' = launch_index + 1
    /\ UNCHANGED launch_pos
    /\ launchRest

\* _launch_all_processes, the inner loop over a Pipeline's commands is over
LaunchPipelineEnd ==
    /\ pool_pc = "launch"
    /\ launch_pos <= Len(launch_calls)
    /\ launch_calls[launch_pos].class = "Pipeline"
    /\ launch_index = launch_calls[launch_pos].append_calls
    /\ launch_pos' = launch_pos + 1
    /\ launch_index' = 0
    /\ UNCHANGED <<running_procs, proc_order, proc_details, use_stdin, last_pid,
                   child_state, child_stdin, listener_pipe, pipes, temp_paths,
                   copy_process_reports, pipe_read_fds>>
    /\ launchRest

\* _launch_all_processes returns; __exit__ goes on to _wait
LaunchAllDone ==
    /\ pool_pc = "launch"
    /\ launch_pos > Len(launch_calls)
    /\ pool_pc' = "wait"
    /\ UNCHANGED <<launch_calls, running_procs, proc_order, proc_details,
                   launch_pos, launch_index, use_stdin, last_pid,
                   something_went_wrong, wait_error, alarm, child_state,
                   child_stdin, listener_pipe, pipes, signals_sent, alarm_expired,
                   temp_paths, copy_process_reports, existing_paths,
                   pipe_read_fds, exit_type, indexVars, buildVars, copyVars, pingVars, laterVars>>

\* the descriptors of a process that ended are closed
CloseFds(fds, pid) == [p \in DOMAIN fds |-> fds[p] \ {pid}]

\* a child process ends on its own; nobody has waited for it yet.  (For a
\* listener: without having written its report.)
ChildExits(pid) ==
    /\ pool_pc \in {"launch", "wait"}
    /\ child_state[pid] = "running"
    /\ child_state' = [child_state EXCEPT ![pid] = "exited"]
    /\ pipe_read_fds' = CloseFds(pipe_read_fds, pid)
    /\ UNCHANGED <<launch_calls, running_procs, proc_order, proc_details, pool_pc,
                   launch_pos, launch_index, use_stdin, last_pid,
                   something_went_wrong, wait_error, alarm, child_stdin,
                   listener_pipe, pipes, signals_sent, alarm_expired,
                   temp_paths, copy_process_reports, existing_paths,
                   exit_type, indexVars, buildVars, copyVars, pingVars, laterVars>>

LaunchNext ==
    \/ launch
    \/ Pipeline_init
    \/ \E i \in DOMAIN launch_calls : Pipeline_append(i)
    \/ Pool_exit
    \/ LaunchCommand
    \/ LaunchPipelineBegin
    \/ LaunchPipelineCommand
    \/ LaunchPipelineEnd
    \/ LaunchAllDone
    \/ \E pid \in DOMAIN child_state : ChildExits(pid)

(***************************************************************************)
(* ProcessPool._wait.                                                      *)
(*                                                                         *)
(* The module is Python 2 (StandardError, str streams).  SIGALRM runs      *)
(* ProcessPool.timeout_handler, which is a plain function of the class     *)
(* body looked up through the class: an unbound method.  Called with       *)
(* (signum, frame) it raises TypeError, since its first argument is no     *)
(* ProcessPool instance.  (Were it called, its body would raise NameError: *)
(* TimeoutException is a name of the class body, not of the module, as is  *)
(* "log" in the except clause and in _kill_all_child_processes.)           *)
(***************************************************************************)
SIGTERM_TIMEOUT == 5

MaxWaitCommands == 1

MaxTempPaths == 1

\* exit_code_with_signal as os.wait3 gives it: exit 0, exit 1, exit 2, killed
\* by SIGPIPE (13), killed by SIGSEGV (11) with a core dump (11 + 128)
WaitStatuses == {0, 256, 512, 13, 139}

\* "os._exit(1)", "os._exit(2)": the two ways a listener ends without a report
ListenerFailures == {256, 512}

RECURSIVE LaunchedOrder(_)
LaunchedOrder(n) == IF n = 0 THEN <<>> ELSE Append(LaunchedOrder(n - 1), n)

\* the state _launch_all_processes leaves for n commands registered with
\* pool.launch, one after the other
Launched(n, handed) ==
    /\ launch_calls = [i \in 1..n |-> [class |-> "dict", append_calls |-> 1]]
    /\ running_procs = 1..(3 * n)
    /\ proc_order = LaunchedOrder(3 * n)
    /\ proc_details =
          [pid \in 1..(3 * n) |->
              CASE pid % 3 = 1 -> CommandDetails(pid, (pid + 2) \div 3, 0, None)
                [] pid % 3 = 2 -> ListenerDetails(pid, pid - 1, "stdout")
                [] pid % 3 = 0 -> ListenerDetails(pid, pid - 2, "stderr")]
    /\ launch_pos = n + 1
    /\ launch_index = 0
    /\ use_stdin = None
    /\ last_pid = 3 * n - 2
    /\ child_state = [pid \in 1..(3 * n) |-> "running"]
    /\ child_stdin = [pid \in {p \in 1..(3 * n) : p % 3 = 1} |-> None]
    /\ listener_pipe = [pid \in {p \in 1..(3 * n) : p % 3 # 1} |-> None]
    /\ pipes = 0
    /\ temp_paths = LaunchedOrder(handed + 2 * n)
    /\ copy_process_reports =
          [pid \in {p \in 1..(3 * n) : p % 3 # 1} |->
              handed + 2 * ((pid - 1) \div 3) + ((pid - 1) % 3)]
    /\ pipe_read_fds = EmptyDict

\* `handed` paths were handed out by get_temporary_path and
\* get_temporary_fifo inside the with block; which of them exist by now is up
\* to the step and to the commands
WaitInit ==
    /\ \E n \in 1..MaxWaitCommands, handed \in 0..MaxTempPaths :
          /\ Launched(n, handed)
          /\ existing_paths \in SUBSET (1..handed)
    /\ pool_pc = "wait"
    /\ something_went_wrong = FALSE
    /\ wait_error = NoException
    /\ alarm = 0
    /\ signals_sent = {}
    /\ alarm_expired = FALSE
    /\ exit_type = NoException

\* the numbers of commands of the one Pipeline of WaitPipelineInit
PipelineLengths == {1, 2}

\* the state _launch_all_processes leaves for one Pipeline of n commands, all
\* children still running: command k is pid 3k-2, its stdout and stderr
\* listeners 3k-1 and 3k; every command but the last has a pipe (numbered k)
\* that its stdout listener writes and command k+1 reads
PipelineLaunched(n) ==
    /\ launch_calls = <<[class |-> "Pipeline", append_calls |-> n]>>
    /\ running_procs = 1..(3 * n)
    /\ proc_order = LaunchedOrder(3 * n)
    /\ proc_details =
          [pid \in 1..(3 * n) |->
              CASE pid % 3 = 1 -> CommandDetails(pid, 1, (pid - 1) \div 3,
                                                 IF pid = 1 THEN None ELSE pid - 3)
                [] pid % 3 = 2 -> ListenerDetails(pid, pid - 1, "stdout")
                [] pid % 3 = 0 -> ListenerDetails(pid, pid - 2, "stderr")]
    /\ launch_pos = 2
    /\ launch_index = 0
    /\ use_stdin = None
    /\ last_pid = 3 * n - 2
    /\ child_state = [pid \in 1..(3 * n) |-> "running"]
    /\ child_stdin = [pid \in {p \in 1..(3 * n) : p % 3 = 1} |->
                         IF pid = 1 THEN None ELSE (pid - 1) \div 3]
    /\ listener_pipe = [pid \in {p \in 1..(3 * n) : p % 3 # 1} |->
                           IF pid % 3 = 2 /\ pid < 3 * n - 1
                           THEN (pid + 1) \div 3 ELSE None]
    /\ pipes = n - 1
    /\ temp_paths = LaunchedOrder(2 * n)
    /\ copy_process_reports =
          [pid \in {p \in 1..(3 * n) : p % 3 # 1} |->
              2 * ((pid - 1) \div 3) + ((pid - 1) % 3)]
    /\ pipe_read_fds = [pipe \in 1..(n - 1) |->
                           {Pool, 3 * pipe} \cup ((3 * pipe + 1)..(3 * n))]

\* _wait is entered for one Pipeline, no other temporary path handed out
WaitPipelineInit ==
    /\ \E n \in PipelineLengths : PipelineLaunched(n)
    /\ existing_paths = {}
    /\ pool_pc = "wait"
    /\ something_went_wrong = FALSE
    /\ wait_error = NoException
    /\ alarm = 0
    /\ signals_sent = {}
    /\ alarm_expired = FALSE
    /\ exit_type = NoException

\* "signal_number = exit_code_with_signal & 255"
SignalNumber(exit_code_with_signal) == exit_code_with_signal % 256

\* "exit_code = exit_code_with_signal >> 8"
ExitCode(exit_code_with_signal) == exit_code_with_signal \div 256

\* what the loop body notes in proc_details[pid] for a reaped child
ReapedDetails(details, exit_code_with_signal) ==
    IF SignalNumber(exit_code_with_signal) = 0
    THEN DictSet(details, "exit_code", ExitCode(exit_code_with_signal))
    ELSE DictSet(details, "signal", SignalNumber(exit_code_with_signal))

\* "if exit_code_with_signal != 0", the else clause of the try statement
WentWrong(exit_code_with_signal) == exit_code_with_signal # 0

waitRest ==
    UNCHANGED <<launch_calls, proc_order, launch_pos, launch_index, use_stdin,
                last_pid, child_stdin, listener_pipe, pipes, signals_sent,
                temp_paths, copy_process_reports, pipe_read_fds, exit_type, indexVars, buildVars, copyVars, pingVars, laterVars>>

IsListener(pid) == pid \in DOMAIN copy_process_reports

\* "report['sha1'] ... report['lines']"
ReportKeys == {"sha1", "tail", "length", "lines"}

\* "if os.path.exists(report_path): ... self.proc_details[pid].update(report)"
WithReport(details, pid) ==
    IF IsListener(pid) /\ copy_process_reports[pid] \in existing_paths
    THEN [k \in DOMAIN details \cup ReportKeys |->
             IF k \in ReportKeys THEN "report" ELSE details[k]]
    ELSE details

\* the statuses wait3 can give for a child: a listener that wrote its report
\* went on to os._exit(0), one that did not left through os._exit(1) or (2)
StatusOf(pid) ==
    IF IsListener(pid)
    THEN IF copy_process_reports[pid] \in existing_paths
         THEN {0} ELSE ListenerFailures
    ELSE WaitStatuses \ {512}

\* a listener reaches the end of its stream, writes its report and ends with
\* os._exit(0); the stream ends when the command has closed it, here: ended
CopyProcessDone(pid) ==
    /\ pool_pc = "wait"
    /\ IsListener(pid)
    /\ child_state[pid] = "running"
    /\ child_state[proc_details[pid].listener_for[1]] # "running"
    /\ child_state' = [child_state EXCEPT ![pid] = "exited"]
    /\ existing_paths' = existing_paths \cup {copy_process_reports[pid]}
    /\ UNCHANGED <<running_procs, proc_details, pool_pc, something_went_wrong,
                   wait_error, alarm, alarm_expired>>
    /\ waitRest

\* os.wait3(0) returns a child that has ended; the loop body notes it, reads
\* and unlinks its report when there is one and, when its status is not 0,
\* arms the alarm
Wait3Child(pid, exit_code_with_signal) ==
    /\ pool_pc = "wait"
    /\ child_state[pid] = "exited"
    /\ exit_code_with_signal \in StatusOf(pid)
    /\ child_state' = [child_state EXCEPT ![pid] = "reaped"]
    /\ running_procs' = running_procs \ {pid}
    /\ proc_details' = [proc_details EXCEPT
                           ![pid] = WithReport(ReapedDetails(@, exit_code_with_signal), pid)]
    /\ existing_paths' = IF IsListener(pid)
                         THEN existing_paths \ {copy_process_reports[pid]}
                         ELSE existing_paths
    /\ IF WentWrong(exit_code_with_signal)
       THEN /\ something_went_wrong' = TRUE
            /\ alarm' = SIGTERM_TIMEOUT
       ELSE UNCHANGED <<something_went_wrong, alarm>>
    /\ UNCHANGED <<pool_pc, wait_error, alarm_expired>>
    /\ waitRest

\* os.wait3(0) raises OSError: no child is left.  alarm(0), break, and
\* raise StandardError when something went wrong
Wait3NoChild ==
    /\ pool_pc = "wait"
    /\ \A pid \in DOMAIN child_state : child_state[pid] = "reaped"
    /\ alarm' = 0
    /\ IF something_went_wrong
       THEN pool_pc' = "raised" /\ wait_error' = "StandardError: Pipeline crashed."
       ELSE pool_pc' = "returned" /\ UNCHANGED wait_error
    /\ UNCHANGED <<running_procs, proc_details, something_went_wrong,
                   child_state, alarm_expired, existing_paths>>
    /\ waitRest

\* a second of the grace period passes
Tick ==
    /\ pool_pc = "wait"
    /\ alarm > 1
    /\ alarm' = alarm - 1
    /\ UNCHANGED <<running_procs, proc_details, pool_pc, something_went_wrong,
                   wait_error, child_state, alarm_expired, existing_paths>>
    /\ waitRest

\* the exception a call of ProcessPool.timeout_handler(signum, frame) ends with
timeout_handler == "TypeError"

\* what calling the global name "log" ends with: the module defines no such
\* name (only the method self.log)
log_call == "NameError"

\* "except ProcessPool.TimeoutException:", the only clause of _wait that goes
\* on with the loop.  Its first statement is log(...), its second the call of
\* _kill_all_child_processes.
TimeoutCaught(exception) ==
    exception = "TimeoutException" /\ log_call = NoException

\* the exception that leaves _wait when `exception` is raised in the try
\* block, for an exception that is no OSError
WaitRaises(exception) ==
    IF exception = "TimeoutException" THEN log_call ELSE exception

\* _kill_all_child_processes: os.kill(pid, signal.SIGTERM) for the pids of
\* running_procs
kill_all_child_processes == {<<pid, "SIGTERM">> : pid \in running_procs}

\* the alarm goes off while _wait runs: the handler is called, and the
\* exception it ends with is raised in _wait
SigAlrm ==
    /\ pool_pc = "wait"
    /\ alarm = 1
    /\ alarm' = 0
    /\ alarm_expired' = TRUE
    /\ IF TimeoutCaught(timeout_handler)
       THEN /\ signals_sent' = signals_sent \cup kill_all_child_processes
            /\ UNCHANGED <<pool_pc, wait_error>>
       ELSE /\ pool_pc' = "raised"
            /\ wait_error' = WaitRaises(timeout_handler)
            /\ UNCHANGED signals_sent
    /\ UNCHANGED <<launch_calls, running_procs, proc_order, proc_details,
                   launch_pos, launch_index, use_stdin, last_pid,
                   something_went_wrong, child_state, child_stdin,
                   listener_pipe, pipes, temp_paths, copy_process_reports,
                   existing_paths, pipe_read_fds, exit_type, indexVars, buildVars, copyVars, pingVars, laterVars>>

\* __exit__ after _wait returned: the log goes to the step, then
\* "for _ in self.temp_paths: os.unlink(_)", OSError passed over
Exit_unlink ==
    /\ pool_pc = "returned"
    /\ pool_pc' = "exit_returned"
    /\ existing_paths' = existing_paths \ Range(temp_paths)
    /\ UNCHANGED <<running_procs, proc_details, something_went_wrong,
                   wait_error, alarm, child_state, alarm_expired>>
    /\ waitRest

\* __exit__ after _wait raised: "except:" passes the log to the step and
\* raises again; the statements after the try statement are not run
Exit_reraise ==
    /\ pool_pc = "raised"
    /\ pool_pc' = "exit_raised"
    /\ UNCHANGED <<running_procs, proc_details, something_went_wrong,
                   wait_error, alarm, child_state, alarm_expired, existing_paths>>
    /\ waitRest

\* the processes that hold the write end of a pipe: os.pipe() is called
\* before the two listeners of the command are forked and the pool closes
\* pipe[1] after both, so the stderr listener holds it as well as the stdout
\* listener that writes it
WriteEndHolders(pipe) ==
    {pid \in DOMAIN listener_pipe :
        \E out \in DOMAIN listener_pipe :
            /\ listener_pipe[out] = pipe
            /\ proc_details[pid].listener_for[1] = proc_details[out].listener_for[1]}

\* a version for a pool that keeps pipe[1] open: no pipe ever gives
\* end-of-file
AtEofPoolHoldsWriteEnd(pid) == child_stdin[pid] = None

\* a read of the command's stdin gives end-of-file: it has the stdin of the
\* pool (stdin = None), or nobody holds the write end of its pipe any more
AtEof(pid) ==
    \/ child_stdin[pid] = None
    \/ \A holder \in WriteEndHolders(child_stdin[pid]) : child_state[holder] # "running"

\* os.write(pipe[1], block) of a listener returns: it writes no pipe, or the
\* command whose stdin the pipe is still runs
PipeDrained(pid) ==
    \/ listener_pipe[pid] = None
    \/ \E reader \in DOMAIN child_stdin :
          child_stdin[reader] = listener_pipe[pid] /\ child_state[reader] = "running"

WaitNext ==
    \/ \E pid \in DOMAIN child_state : ChildExits(pid)
    \/ \E pid \in DOMAIN child_state : CopyProcessDone(pid)
    \/ \E pid \in DOMAIN child_state, st \in WaitStatuses : Wait3Child(pid, st)
    \/ Wait3NoChild
    \/ Tick
    \/ SigAlrm
    \/ Exit_unlink
    \/ Exit_reraise

(***************************************************************************)
(* The stream listener: the child side of _do_launch_copy_process.         *)
(*                                                                         *)
(* Bytes are one-character strings, a str is a sequence of them.           *)
(* TAIL_LENGTH is 1024 and COPY_BLOCK_SIZE 4194304 in the source; both are  *)
(* scaled down here, with streams longer than either.                      *)
(***************************************************************************)
TAIL_LENGTH == 2

COPY_BLOCK_SIZE == 3

MaxStream == 4

Newline == "\n"

Bytes == {"a", Newline}

NoReport == [written |-> FALSE]

RECURSIVE StreamsUpTo(_)
StreamsUpTo(n) ==
    IF n = 0 THEN {<<>>}
    ELSE LET shorter == StreamsUpTo(n - 1)
         IN  shorter \cup {Append(t, b) : t \in {u \in shorter : Len(u) = n - 1}, b \in Bytes}

\* hashlib.sha1: the digest stands for the bytes it was given, in order
sha1(bytes) == <<"sha1", bytes>>

\* a version of str.count that says whether the byte occurs at all
count_any(block, byte) == IF \E i \in DOMAIN block : block[i] = byte THEN 1 ELSE 0

\* block.count('\n')
count(block, byte) == Cardinality({i \in DOMAIN block : block[i] = byte})

\* s[-n:] for n > 0
LastOf(str, n) ==
    IF Len(str) <= n THEN str ELSE SubSeq(str, Len(str) - n + 1, Len(str))

\* s[0:n] for n >= 0
FirstOf(str, n) == IF Len(str) <= n THEN str ELSE SubSeq(str, 1, n)

\* "update tail"
UpdateTail(old_tail, block) ==
    IF Len(block) >= TAIL_LENGTH
    THEN LastOf(block, TAIL_LENGTH)
    ELSE FirstOf(old_tail, TAIL_LENGTH - Len(block)) \o block

\* a version of the check after os.write that lets a short write pass
ShortWriteUnnoticed(bytes_written, block) == FALSE

\* "if bytes_written != len(block)"
ShortWrite(bytes_written, block) == bytes_written # Len(block)

CopyIdle ==
    /\ stream = <<>>
    /\ fin_pos = 0
    /\ has_sink = FALSE
    /\ has_pipe = FALSE
    /\ checksum = <<>>
    /\ tail = <<>>
    /\ length = 0
    /\ newline_count = 0
    /\ sink_written = <<>>
    /\ pipe_written = <<>>
    /\ report = NoReport
    /\ copy_pc = "idle"

\* the forked child before its loop: nothing read, nothing written
CopyInit ==
    /\ stream \in StreamsUpTo(MaxStream)
    /\ fin_pos = 0
    /\ has_sink \in BOOLEAN
    /\ has_pipe \in BOOLEAN
    /\ checksum = <<>>
    /\ tail = <<>>
    /\ length = 0
    /\ newline_count = 0
    /\ sink_written = <<>>
    /\ pipe_written = <<>>
    /\ report = NoReport
    /\ copy_pc = "read"

copyRest ==
    UNCHANGED <<stream, has_sink, has_pipe, indexVars, buildVars, poolVars,
                pingVars, laterVars>>

\* one round of the loop with a block of n bytes: fin.read gives between 1
\* and COPY_BLOCK_SIZE bytes while the stream lasts; os.write takes
\* to_sink of them for the sink file and to_pipe of them for the pipe
CopyBlock(n, to_sink, to_pipe) ==
    LET block == SubSeq(stream, fin_pos + 1, fin_pos + n)
        sink_short == has_sink /\ ShortWrite(to_sink, block)
        pipe_short == has_pipe /\ ShortWrite(to_pipe, block)
    IN  /\ copy_pc = "read"
        /\ n >= 1
        /\ n <= COPY_BLOCK_SIZE
        /\ fin_pos + n <= Len(stream)
        /\ fin_pos' = fin_pos + n
        /\ checksum' = checksum \o block
        /\ tail' = UpdateTail(tail, block)
        /\ length' = length + Len(block)
        /\ newline_count' = newline_count + count(block, Newline)
        /\ sink_written' = IF has_sink
                           THEN sink_written \o FirstOf(block, to_sink)
                           ELSE sink_written
        /\ pipe_written' = IF has_pipe /\ ~sink_short
                           THEN pipe_written \o FirstOf(block, to_pipe)
                           ELSE pipe_written
        /\ copy_pc' = IF sink_short THEN "exit1"
                      ELSE IF pipe_short THEN "exit2"
                      ELSE "read"
        /\ UNCHANGED report
        /\ copyRest

\* fin.read gives no byte: the loop is left, the report is written,
\* os._exit(0)
CopyEof ==
    /\ copy_pc = "read"
    /\ fin_pos = Len(stream)
    /\ report' = [written |-> TRUE, sha1 |-> sha1(checksum), tail |-> tail,
                  length |-> length, lines |-> newline_count]
    /\ copy_pc' = "exit0"
    /\ UNCHANGED <<fin_pos, checksum, tail, length, newline_count,
                   sink_written, pipe_written>>
    /\ copyRest

CopyNext ==
    \/ \E n \in 1..COPY_BLOCK_SIZE, to_sink \in 0..COPY_BLOCK_SIZE,
          to_pipe \in 0..COPY_BLOCK_SIZE :
          /\ to_sink <= n
          /\ to_pipe <= n
          /\ has_sink \/ to_sink = n
          /\ has_pipe \/ to_pipe = n
          /\ CopyBlock(n, to_sink, to_pipe)
    \/ CopyEof

(***************************************************************************)
(* Pipeline.check_ping_files.                                              *)
(*                                                                         *)
(* A line of the stat output is a sequence of one-character strings; the   *)
(* output is the set of its lines (running_jids is a set, the order of the *)
(* lines has no effect).  A ping file is named by its task and its kind.   *)
(***************************************************************************)
MaxPingTasks == 1

MaxStatLines == 2

NoFile == "no file"

\* str(info['cluster job id']) of the queued ping files
JobIds == {"7", "13"}

Completing == <<"C", "O", "M", "P", "L", "E", "T", "I", "N", "G">>

StatLines ==
    { <<"7", " ", "R">>,
      <<" ", "1", "3", "_", "3", " ", "R">>,
      <<"1", "3", " ">> \o Completing,
      <<"0", "7">>,
      <<"J", "O", "B">>,
      <<"7", "x", " ", "R">> }

\* the command tables: no table for the cluster type, a table without
\* 'stat', a table with 'stat'
ClusterConfigs ==
    { [configured |-> FALSE, table |-> {}],
      [configured |-> TRUE, table |-> {"submit"}],
      [configured |-> TRUE, table |-> {"submit", "stat"}] }

\* subprocess.check_output: it cannot start the command, the command exits
\* with a status that is not 0, or it gives the command's output
StatFailures == {"OSError", "CalledProcessError"}

StatResults ==
    {[exception |-> e, output |-> {}] : e \in StatFailures}
        \cup {[exception |-> NoException, output |-> out] :
                 out \in {o \in SUBSET StatLines : Cardinality(o) <= MaxStatLines}}

\* get_cluster_command(key): the exception it ends with, or NoException.
\* self.get_cluster_config()[ct] is a KeyError for a cluster type without a
\* table; a key missing from the table is a UAPError
get_cluster_command(config, key) ==
    IF ~config.configured THEN "KeyError"
    ELSE IF key \notin config.table THEN "UAPError"
    ELSE NoException

\* "except (KeyError, OSError, subprocess.CalledProcessError):"
StatCaught == {"KeyError", "OSError", "CalledProcessError"}

\* a version of the except clause that leaves check_queue as it was
check_queue_kept(exception) == TRUE

\* check_queue after the try statement: True unless the except clause ran
check_queue_after(exception) == exception = NoException

\* str.strip() for blanks
RECURSIVE Strip(_)
Strip(str) ==
    IF str = <<>> THEN str
    ELSE IF Head(str) = " " THEN Strip(Tail(str))
    ELSE IF str[Len(str)] = " " THEN Strip(SubSeq(str, 1, Len(str) - 1))
    ELSE str

\* a version of split(sep)[0] that cuts nothing
SplitNothing(str, sep) == str

\* str.split(sep)[0]: what comes before the first sep
SplitFirst(str, sep) ==
    IF \E i \in DOMAIN str : str[i] = sep
    THEN SubSeq(str, 1, (CHOOSE i \in DOMAIN str :
                            /\ str[i] = sep
                            /\ \A j \in 1..(i - 1) : str[j] # sep) - 1)
    ELSE str

\* int(str) raises ValueError unless str is a decimal number
IsInt(str) == str # <<>> /\ \A i \in DOMAIN str : IsDigit(str[i])

\* str(int(str)): the decimal digits without leading zeros, as one string
RECURSIVE Concat(_)
Concat(str) == IF str = <<>> THEN "" ELSE Head(str) \o Concat(Tail(str))

RECURSIVE StripZeros(_)
StripZeros(str) ==
    IF Len(str) > 1 /\ Head(str) = "0" THEN StripZeros(Tail(str)) ELSE str

StrInt(str) == Concat(StripZeros(str))

\* 'COMPLETING' in line
Contains(line, word) ==
    \E i \in 0..(Len(line) - Len(word)) : SubSeq(line, i + 1, i + Len(word)) = word

\* the field int() is given: line.strip().split(' ')[0].split('_')[0]
JidField(line) == SplitFirst(SplitFirst(Strip(line), " "), "_")

\* the loop over stat_output.split("\n")
ParseJids(output) ==
    {StrInt(JidField(line)) :
        line \in {l \in output : ~Contains(l, Completing) /\ IsInt(JidField(l))}}

PingTasks(n) == 1..n

PingFiles ==
    [queued : JobIds \cup {NoFile}, bad : BOOLEAN, stale : BOOLEAN]

PingIdle ==
    /\ cluster_config = [configured |-> FALSE, table |-> {}]
    /\ stat_result = [exception |-> NoException, output |-> {}]
    /\ ping_files = <<>>
    /\ print_more_warnings = FALSE
    /\ fix_problems = FALSE
    /\ check_queue = TRUE
    /\ running_jids = {}
    /\ run_problems = <<>>
    /\ queue_problems = <<>>
    /\ bad_problems = <<>>
    /\ task_pos = 1
    /\ unlinked = {}
    /\ warned = FALSE
    /\ no_problems_printed = FALSE
    /\ ping_error = NoException
    /\ ping_pc = "idle"

\* check_ping_files is entered; the stat command is run only when the table
\* names one
PingInit ==
    /\ cluster_config \in ClusterConfigs
    /\ stat_result \in StatResults
    /\ get_cluster_command(cluster_config, "stat") # NoException
          => stat_result = [exception |-> NoException, output |-> {}]
    /\ \E n \in 1..MaxPingTasks : ping_files \in [PingTasks(n) -> PingFiles]
    /\ print_more_warnings \in BOOLEAN
    /\ fix_problems \in BOOLEAN
    /\ check_queue = TRUE
    /\ running_jids = {}
    /\ run_problems = <<>>
    /\ queue_problems = <<>>
    /\ bad_problems = <<>>
    /\ task_pos = 1
    /\ unlinked = {}
    /\ warned = FALSE
    /\ no_problems_printed = FALSE
    /\ ping_error = NoException
    /\ ping_pc = "stat"

pingOthers == UNCHANGED <<indexVars, buildVars, poolVars, copyVars, laterVars>>

pingRest ==
    /\ UNCHANGED <<cluster_config, stat_result, ping_files, print_more_warnings,
                   fix_problems, no_problems_printed>>
    /\ pingOthers

\* the exception the try statement around check_output ends with
StatException ==
    IF get_cluster_command(cluster_config, "stat") # NoException
    THEN get_cluster_command(cluster_config, "stat")
    ELSE stat_result.exception

\* "try: stat_output = subprocess.check_output([self.get_cluster_command('stat')]..."
CallStat ==
    /\ ping_pc = "stat"
    /\ IF StatException = NoException \/ StatException \in StatCaught
       THEN /\ check_queue' = check_queue_after(StatException)
            /\ ping_pc' = "warn"
            /\ UNCHANGED ping_error
       ELSE /\ ping_pc' = "raised"
            /\ ping_error' = StatException
            /\ UNCHANGED check_queue
    /\ UNCHANGED <<running_jids, run_problems, queue_problems, bad_problems,
                   task_pos, unlinked, warned>>
    /\ pingRest

\* "if print_more_warnings and not check_queue:", where only KeyError is
\* caught around get_cluster_command
WarnNoQueueCheck ==
    /\ ping_pc = "warn"
    /\ IF print_more_warnings /\ ~check_queue
       THEN IF get_cluster_command(cluster_config, "stat") \in {NoException, "KeyError"}
            THEN /\ warned' = TRUE
                 /\ ping_pc' = "parse"
                 /\ UNCHANGED ping_error
            ELSE /\ ping_pc' = "raised"
                 /\ ping_error' = get_cluster_command(cluster_config, "stat")
                 /\ UNCHANGED warned
       ELSE /\ ping_pc' = "parse"
            /\ UNCHANGED <<warned, ping_error>>
    /\ UNCHANGED <<check_queue, running_jids, run_problems, queue_problems,
                   bad_problems, task_pos, unlinked>>
    /\ pingRest

\* "running_jids = set()" and, "if check_queue:", the loop over the lines
ParseStat ==
    /\ ping_pc = "parse"
    /\ running_jids' = IF check_queue THEN ParseJids(stat_result.output) ELSE {}
    /\ ping_pc' = "tasks"
    /\ UNCHANGED <<check_queue, run_problems, queue_problems, bad_problems,
                   task_pos, unlinked, warned, ping_error>>
    /\ pingRest

\* one round of "for task in self.all_tasks_topologically_sorted:"
CheckTask ==
    /\ ping_pc = "tasks"
    /\ task_pos <= Len(ping_files)
    /\ LET task  == task_pos
           files == ping_files[task]
       IN  /\ run_problems' =
                 IF files.stale
                 THEN Append(run_problems, <<task, <<task, "executing">>>>)
                 ELSE run_problems
           /\ queue_problems' =
                 IF check_queue /\ files.queued # NoFile /\ files.queued \notin running_jids
                 THEN Append(queue_problems, <<task, <<task, "queued">>, files.queued>>)
                 ELSE queue_problems
           /\ bad_problems' =
                 IF files.bad
                 THEN Append(bad_problems, <<task, <<task, "queued.bad">>>>)
                 ELSE bad_problems
    /\ task_pos' = task_pos + 1
    /\ UNCHANGED <<check_queue, running_jids, unlinked, warned, ping_error, ping_pc>>
    /\ pingRest

\* a version that unlinks without being asked to
UnlinkedRegardless(fix, all_problems) == {problem[2] : problem \in all_problems}

\* "if fix_problems: ... for problem in all_problems: os.unlink(path)"
Unlinked(fix, all_problems) ==
    IF fix THEN {problem[2] : problem \in all_problems} ELSE {}

\* the path is a file on disk
OnDisk(files, path) ==
    IF path[2] = "executing" THEN files[path[1]].stale
    ELSE IF path[2] = "queued" THEN files[path[1]].queued # NoFile
    ELSE files[path[1]].bad

\* the disk without the file
Removed(files, path) ==
    [files EXCEPT ![path[1]] =
        IF path[2] = "executing" THEN [@ EXCEPT !.stale = FALSE]
        ELSE IF path[2] = "queued" THEN [@ EXCEPT !.queued = NoFile]
        ELSE [@ EXCEPT !.bad = FALSE]]

PingPaths ==
    {<<task, kind>> : task \in DOMAIN ping_files,
                      kind \in {"executing", "queued", "queued.bad"}}

\* another process, a finishing cluster job for one, removes a ping file
\* after the loop over the tasks has looked at it
OtherProcessRemoves(path) ==
    /\ ping_pc = "tasks"
    /\ task_pos > Len(ping_files)
    /\ OnDisk(ping_files, path)
    /\ ping_files' = Removed(ping_files, path)
    /\ UNCHANGED <<cluster_config, stat_result, print_more_warnings, fix_problems,
                   check_queue, running_jids, run_problems, queue_problems,
                   bad_problems, task_pos, unlinked, warned, no_problems_printed,
                   ping_error, ping_pc>>
    /\ pingOthers

\* "show_hint": set for stale run ping files and for queued ping files of
\* jobs that are gone, not for .bad files
ShowHint(run, queue, bad) == Len(run) > 0 \/ Len(queue) > 0

\* after the loop: the reports are printed; "if fix_problems:" the path of
\* every problem is unlinked in the order run, queue, bad, and os.unlink
\* raises OSError for a path that is no file; then the hints or 'No
\* problematic ping files were found.' are printed
FixProblems ==
    /\ ping_pc = "tasks"
    /\ task_pos > Len(ping_files)
    /\ LET all_problems == run_problems \o queue_problems \o bad_problems
           gone == {i \in DOMAIN all_problems :
                       ~OnDisk(ping_files, all_problems[i][2])}
           upto == IF gone = {} THEN Len(all_problems)
                   ELSE (CHOOSE i \in gone : \A j \in gone : i <= j) - 1
       IN  /\ unlinked' = Unlinked(fix_problems,
                                   Range(SubSeq(all_problems, 1, upto)))
           /\ IF fix_problems /\ gone # {}
              THEN /\ ping_pc' = "raised"
                   /\ ping_error' = "OSError"
                   /\ UNCHANGED no_problems_printed
              ELSE /\ ping_pc' = "done"
                   /\ no_problems_printed' =
                          ~ShowHint(run_problems, queue_problems, bad_problems)
                   /\ UNCHANGED ping_error
    /\ UNCHANGED <<cluster_config, stat_result, ping_files, print_more_warnings,
                   fix_problems, check_queue, running_jids, run_problems,
                   queue_problems, bad_problems, task_pos, warned>>
    /\ pingOthers

PingNext ==
    \/ CallStat
    \/ WarnNoQueueCheck
    \/ ParseStat
    \/ CheckTask
    \/ \E path \in PingPaths : OtherProcessRemoves(path)
    \/ FixProblems

(***************************************************************************)
(* The task collection at the end of Pipeline.__init__ and                 *)
(* Pipeline.get_task_with_list.  A task is the pair of its step and its    *)
(* run id; a run is known by the number of its exec groups.                *)
(***************************************************************************)
TaskStepNames == {<<"s", "1">>, <<"s", "1", "0">>}

TaskRunIds == {<<"s", "1">>, <<"s", "1", "0">>, <<"s", "0", "1">>}

MaxRuns == 2

MaxWishes == 1

ExecGroupCounts == {0, 1}

\* the runs a step can have: run id -> number of exec groups
RunDicts ==
    UNION {[ids -> ExecGroupCounts] :
              ids \in {S \in SUBSET TaskRunIds : Cardinality(S) <= MaxRuns}}

\* the orders build_steps can have left: each step depends on the one before
StepOrders ==
    {order \in UNION {[1..n -> TaskStepNames] : n \in 0..Cardinality(TaskStepNames)} :
        \A i, j \in DOMAIN order : i # j => order[i] # order[j]}

\* the state build_steps leaves when it placed the steps in this order
BuildDone(order) ==
    /\ steps = Range(order)
    /\ dependencies = [s \in Range(order) |->
                          {order[i] : i \in {k \in DOMAIN order :
                                                k < Len(order) /\ order[k + 1] = s}}]
    /\ step_type = [s \in Range(order) |-> "step"]
    /\ unassigned_steps = {}
    /\ assigned_steps = Range(order)
    /\ topological_step_order = order
    /\ build_rounds = [i \in DOMAIN order |-> <<order[i]>>]
    /\ build_pc = "finalized"
    /\ build_error = NoError

\* str(task): Task.__str__ gives '%s/%s' % (step, run_id)
TaskStr(task) == task.step \o <<"/">> \o task.run_id

\* a version of startswith that wants the whole string
StartsWithWhole(str, prefix) == str = prefix

\* str.startswith
StartsWith(str, prefix) ==
    /\ Len(prefix) <= Len(str)
    /\ SubSeq(str, 1, Len(prefix)) = prefix

\* a version of the test that takes every run for one with exec groups
AnyRunHasExecGroups(exec_groups) == TRUE

\* len(run.get_exec_groups()) > 0
RunHasExecGroups(exec_groups) == exec_groups > 0

DuplicateTaskError == [msg |-> "Duplicate task ID %s.", args |-> {}]

NoMatchError ==
    [msg |-> "No task matches the requested pattern(s) '%s'.", args |-> {}]

UnboundLocalError ==
    [msg |-> "local variable 'specified_tasks' referenced before assignment",
     args |-> {}]

TasksIdle ==
    /\ runs = EmptyDict
    /\ all_tasks_topologically_sorted = <<>>
    /\ tasks_in_step = EmptyDict
    /\ task_for_task_id = EmptyDict
    /\ collect_pos = 0
    /\ specified_tasks = <<>>
    /\ exclusive = FALSE
    /\ task_wish_list = <<>>
    /\ tasks_error = NoError
    /\ tasks_pc = "idle"

\* the constructor has built the steps and is about to collect the tasks
TasksInit ==
    /\ runs \in [Range(topological_step_order) -> RunDicts]
    /\ all_tasks_topologically_sorted = <<>>
    /\ tasks_in_step = EmptyDict
    /\ task_for_task_id = EmptyDict
    /\ collect_pos = 1
    /\ specified_tasks = <<>>
    /\ exclusive = FALSE
    /\ task_wish_list = <<>>
    /\ tasks_error = NoError
    /\ tasks_pc = "collect"

\* the tasks of one step in the order of the run ids given
TasksOf(step_name, run_ids) ==
    [i \in DOMAIN run_ids |-> [step |-> step_name, run_id |-> run_ids[i]]]

\* one round of "for step_name in self.topological_step_order"
CollectTasks ==
    /\ tasks_pc = "collect"
    /\ collect_pos <= Len(topological_step_order)
    /\ LET step_name == topological_step_order[collect_pos]
       IN  \E run_ids \in natsorted(DOMAIN runs[step_name]) :
              LET tasks == TasksOf(step_name, run_ids)
                  with_exec_groups ==
                      SelectSeq(tasks, LAMBDA task :
                          RunHasExecGroups(runs[step_name][task.run_id]))
              IN  IF \E i \in DOMAIN tasks :
                         \/ TaskStr(tasks[i]) \in DOMAIN task_for_task_id
                         \/ \E j \in 1..(i - 1) : TaskStr(tasks[j]) = TaskStr(tasks[i])
                  THEN /\ tasks_pc' = "raised"
                       /\ tasks_error' = DuplicateTaskError
                       /\ UNCHANGED <<all_tasks_topologically_sorted, tasks_in_step,
                                      task_for_task_id, collect_pos>>
                  ELSE /\ all_tasks_topologically_sorted' =
                              all_tasks_topologically_sorted \o with_exec_groups
                       /\ tasks_in_step' =
                              (step_name :> with_exec_groups) @@ tasks_in_step
                       /\ task_for_task_id' =
                              [id \in {TaskStr(tasks[i]) : i \in DOMAIN tasks} |->
                                  CHOOSE task \in Range(tasks) : TaskStr(task) = id]
                              @@ task_for_task_id
                       /\ collect_pos' = collect_pos + 1
                       /\ UNCHANGED <<tasks_pc, tasks_error>>
    /\ UNCHANGED <<runs, specified_tasks, exclusive, task_wish_list>>
    /\ UNCHANGED <<indexVars, buildVars, poolVars, copyVars, pingVars,
                   detectVars, optionVars, toolsVars, toolVars, stepVars>>

\* the loop is through: the constructor returns
Constructed ==
    /\ tasks_pc = "collect"
    /\ collect_pos > Len(topological_step_order)
    /\ tasks_pc' = "constructed"
    /\ UNCHANGED <<runs, all_tasks_topologically_sorted, tasks_in_step,
                   task_for_task_id, collect_pos, specified_tasks, exclusive,
                   task_wish_list, tasks_error>>
    /\ UNCHANGED <<indexVars, buildVars, poolVars, copyVars, pingVars,
                   detectVars, optionVars, toolsVars, toolVars, stepVars>>

\* the patterns a user asks for
Wishes ==
    {<<"s", "1">>, <<"s", "1", "/", "s", "1">>, <<"s", "1", "0", "/">>, <<"t">>}

WishLists == UNION {[1..n -> Wishes] : n \in 0..MaxWishes}

\* what one task_id of the for loop appends to task_wish_list
Wished(task_id) ==
    IF task_id \in DOMAIN task_for_task_id
    THEN <<task_for_task_id[task_id]>>
    ELSE SelectSeq(all_tasks_topologically_sorted,
                   LAMBDA task : StartsWith(TaskStr(task), task_id))

RECURSIVE WishedAll(_)
WishedAll(task_ids) ==
    IF task_ids = <<>> THEN <<>>
    ELSE Wished(Head(task_ids)) \o WishedAll(Tail(task_ids))

\* get_task_with_list(as_string = False, exclusive = excl), self.args with or
\* without the attribute run
get_task_with_list(has_run, run, excl) ==
    /\ tasks_pc = "constructed"
    /\ specified_tasks' = run
    /\ exclusive' = excl
    /\ IF ~has_run
       THEN /\ tasks_pc' = "raised"
            /\ tasks_error' = UnboundLocalError
            /\ UNCHANGED task_wish_list
       ELSE IF run # <<>> /\ WishedAll(run) = <<>>
       THEN /\ tasks_pc' = "raised"
            /\ tasks_error' = NoMatchError
            /\ UNCHANGED task_wish_list
       ELSE /\ tasks_pc' = "returned"
            /\ task_wish_list' =
                   IF run = <<>> /\ ~excl
                   THEN all_tasks_topologically_sorted
                   ELSE WishedAll(run)
            /\ UNCHANGED tasks_error
    /\ UNCHANGED <<runs, all_tasks_topologically_sorted, tasks_in_step,
                   task_for_task_id, collect_pos>>
    /\ UNCHANGED <<indexVars, buildVars, poolVars, copyVars, pingVars,
                   detectVars, optionVars, toolsVars, toolVars, stepVars>>

TasksNext ==
    \/ CollectTasks
    \/ Constructed
    \/ \E run \in WishLists, excl \in BOOLEAN : get_task_with_list(TRUE, run, excl)
    \/ \E excl \in BOOLEAN : get_task_with_list(FALSE, <<>>, excl)

(***************************************************************************)
(* Pipeline.autodetect_cluster_type.  A cluster type of the command table  *)
(* is known by the identity keys it lacks, its identity_answer and what    *)
(* subprocess.check_output(identity_test) does on this machine.            *)
(***************************************************************************)
MaxClusterTypes == 2

\* the names of the cluster types, the i-th being the i-th key of the table
ClusterTypeNames == <<"slurm", "sge", "uge", "pbs">>

\* what check_output does: OSError when the command cannot be started,
\* CalledProcessError when it exits with a non-zero code, else its stdout
TestOutcomes ==
    {[raises |-> "OSError", stdout |-> <<>>],
     [raises |-> "CalledProcessError", stdout |-> <<>>],
     [raises |-> "", stdout |-> <<"s", "l">>],
     [raises |-> "", stdout |-> <<"u">>]}

\* identity_answer: a list of strings or one string
IdentityAnswers ==
    {[is_list |-> TRUE, items |-> l] :
        l \in {<<>>, <<<<"s">>>>, <<<<"u">>>>, <<<<"s">>, <<"u">>>>}}
    \cup {[is_list |-> FALSE, items |-> <<a>>] : a \in {<<"s">>, <<"u">>}}

ClusterTypes ==
    {[missing |-> m, answer |-> [is_list |-> TRUE, items |-> <<>>],
      outcome |-> [raises |-> "OSError", stdout |-> <<>>]] : m \in {"test", "answer"}}
    \cup {[missing |-> "", answer |-> a, outcome |-> o] :
             a \in IdentityAnswers, o \in TestOutcomes}

MissingIdentityError(key) ==
    [msg |-> "%s: Missing 'identity_%s' for %scluster type.", args |-> {key}]

CalledProcessError == [msg |-> "CalledProcessError", args |-> {}]

DetectIdle ==
    /\ cluster_table = <<>>
    /\ detect_pos = 0
    /\ detect_result = "None"
    /\ detect_warned = FALSE
    /\ detect_error = NoError
    /\ detect_pc = "idle"

DetectInit ==
    /\ cluster_table \in UNION {[1..n -> ClusterTypes] : n \in 0..MaxClusterTypes}
    /\ detect_pos = 1
    /\ detect_result = "None"
    /\ detect_warned = FALSE
    /\ detect_error = NoError
    /\ detect_pc = "loop"

\* "except OSError: pass"
PassedOver(raised) == raised = "OSError"

\* the for loop over identity['answer']: "match" when an answer is the start
\* of the output, the exception that leaves the loop, or "" when it ends
RECURSIVE TestAnswers(_, _)
TestAnswers(outcome, answers) ==
    IF answers = <<>> THEN ""
    ELSE IF outcome.raises # ""
    THEN IF PassedOver(outcome.raises)
         THEN TestAnswers(outcome, Tail(answers))
         ELSE outcome.raises
    ELSE IF StartsWith(outcome.stdout, Head(answers)) THEN "match"
    ELSE TestAnswers(outcome, Tail(answers))

detectRest ==
    UNCHANGED <<cluster_table, indexVars, buildVars, poolVars, copyVars,
                pingVars, taskVars, optionVars, toolsVars, toolVars, stepVars>>

\* one round of "for cluster_type in cluster_config.keys()"
DetectType ==
    /\ detect_pc = "loop"
    /\ detect_pos <= Len(cluster_table)
    /\ LET cluster_type == cluster_table[detect_pos]
           tested == TestAnswers(cluster_type.outcome, cluster_type.answer.items)
       IN  IF cluster_type.missing # ""
           THEN /\ detect_pc' = "raised"
                /\ detect_error' = MissingIdentityError(cluster_type.missing)
                /\ UNCHANGED <<detect_pos, detect_result>>
           ELSE IF tested = "match"
           THEN /\ detect_pc' = "returned"
                /\ detect_result' = ClusterTypeNames[detect_pos]
                /\ UNCHANGED <<detect_pos, detect_error>>
           ELSE IF tested = ""
           THEN /\ detect_pos' = detect_pos + 1
                /\ UNCHANGED <<detect_pc, detect_result, detect_error>>
           ELSE /\ detect_pc' = "raised"
                /\ detect_error' = CalledProcessError
                /\ UNCHANGED <<detect_pos, detect_result>>
    /\ UNCHANGED detect_warned
    /\ detectRest

\* the loop ends: warn and return None
DetectNothing ==
    /\ detect_pc = "loop"
    /\ detect_pos > Len(cluster_table)
    /\ detect_warned' = TRUE
    /\ detect_result' = "None"
    /\ detect_pc' = "returned"
    /\ UNCHANGED <<detect_pos, detect_error>>
    /\ detectRest

DetectNext ==
    \/ DetectType
    \/ DetectNothing

(***************************************************************************)
(* Pipeline.get_cluster_command_cli_option.  Strings are sequences of      *)
(* one-character strings; the % operator of Python is modelled on the      *)
(* directives %s and %%.                                                   *)
(***************************************************************************)
MaxFragments == 2

MaxValues == 2

\* the fragments of a command-table entry
Fragments ==
    {<<"-">>, <<"%", "s">>, <<"-", "%", "s">>, <<"%", "s", "%", "s">>,
     <<"%", "s", "%", "%">>, <<"%", "%", "s">>, <<"%", "s", "%">>}

OptionValues == {<<"1">>, <<"2">>}

\* an entry: a list of fragments, one string, or no entry under the key
OptionEntries ==
    {[kind |-> "list", parts |-> l] :
        l \in UNION {[1..n -> Fragments] : n \in 0..MaxFragments}}
    \cup {[kind |-> "str", parts |-> <<f>>] : f \in Fragments}
    \cup {[kind |-> "missing", parts |-> <<>>]}

\* the value handed in: a tuple, or one string
OptionValueArgs ==
    {[is_tuple |-> TRUE, items |-> t] :
        t \in UNION {[1..n -> OptionValues] : n \in 0..MaxValues}}
    \cup {[is_tuple |-> FALSE, items |-> <<v>>] : v \in OptionValues}

NoValue == [is_tuple |-> TRUE, items |-> <<>>]

\* an element of the list returned: a string, or the value handed in
Text(str) == [text |-> str, is_value |-> FALSE, value |-> NoValue]

\* part.count('%s'): the occurrences that do not overlap, from the left
RECURSIVE CountPlaceholders(_)
CountPlaceholders(part) ==
    IF Len(part) < 2 THEN 0
    ELSE IF part[1] = "%" /\ part[2] = "s"
    THEN 1 + CountPlaceholders(SubSeq(part, 3, Len(part)))
    ELSE CountPlaceholders(Tail(part))

RECURSIVE SumPlaceholders(_)
SumPlaceholders(parts) ==
    IF parts = <<>> THEN 0
    ELSE CountPlaceholders(Head(parts)) + SumPlaceholders(Tail(parts))

\* part % values: the text, or the exception of the first directive that
\* fails; values left over are an error as well
RECURSIVE Format(_, _)
Format(part, values) ==
    IF part = <<>>
    THEN IF values = <<>> THEN [raises |-> "", text |-> <<>>]
         ELSE [raises |-> "TypeError", text |-> <<>>]
    ELSE IF Head(part) # "%"
    THEN LET rest == Format(Tail(part), values)
         IN  [raises |-> rest.raises, text |-> <<Head(part)>> \o rest.text]
    ELSE IF Len(part) = 1 THEN [raises |-> "ValueError", text |-> <<>>]
    ELSE IF part[2] = "%"
    THEN LET rest == Format(SubSeq(part, 3, Len(part)), values)
         IN  [raises |-> rest.raises, text |-> <<"%">> \o rest.text]
    ELSE IF part[2] = "s"
    THEN IF values = <<>> THEN [raises |-> "TypeError", text |-> <<>>]
         ELSE LET rest == Format(SubSeq(part, 3, Len(part)), Tail(values))
              IN  [raises |-> rest.raises, text |-> Head(values) \o rest.text]
    ELSE [raises |-> "ValueError", text |-> <<>>]

\* a version of the slice that hands every fragment the values from the first
FirstValues(values, i, n) == SubSeq(values, 1, n)

\* value[i:i + n], i counting from 0
Slice(values, i, n) ==
    SubSeq(values, i + 1, IF i + n > Len(values) THEN Len(values) ELSE i + n)

\* the for loop over the fragments, i values being used up already
RECURSIVE FillParts(_, _, _)
FillParts(parts, values, i) ==
    IF parts = <<>> THEN [raises |-> "", options |-> <<>>]
    ELSE LET part == Head(parts)
             n    == CountPlaceholders(part)
         IN  IF n > 0
             THEN LET filled == Format(part, Slice(values, i, n))
                      rest   == FillParts(Tail(parts), values, i + n)
                  IN  IF filled.raises # ""
                      THEN [raises |-> filled.raises, options |-> <<>>]
                      ELSE [raises |-> rest.raises,
                            options |-> <<Text(filled.text)>> \o rest.options]
             ELSE LET rest == FillParts(Tail(parts), values, i)
                  IN  [raises |-> rest.raises,
                       options |-> <<Text(part)>> \o rest.options]

WrongNumberOfValues ==
    [msg |-> "The option %s requires a tuple of %d values to be placed into %s but the values are %s.",
     args |-> {}]

PythonError(name) == [msg |-> name, args |-> {}]

OptionIdle ==
    /\ option_entry = [kind |-> "missing", parts |-> <<>>]
    /\ option_value = NoValue
    /\ option_result = <<>>
    /\ option_error = NoError
    /\ option_pc = "idle"

OptionInit ==
    /\ option_entry \in OptionEntries
    /\ option_value \in OptionValueArgs
    /\ option_result = <<>>
    /\ option_error = NoError
    /\ option_pc = "call"

optionRest ==
    UNCHANGED <<option_entry, option_value, indexVars, buildVars, poolVars,
                copyVars, pingVars, taskVars, detectVars, toolsVars, toolVars, stepVars>>

\* the entry is a list of fragments
OptionOfList ==
    /\ option_pc = "call"
    /\ option_entry.kind = "list"
    /\ LET values == option_value.items
           filled == FillParts(option_entry.parts, values, 0)
       IN  IF Len(values) # SumPlaceholders(option_entry.parts)
           THEN /\ option_pc' = "raised"
                /\ option_error' = WrongNumberOfValues
                /\ UNCHANGED option_result
           ELSE IF filled.raises # ""
           THEN /\ option_pc' = "raised"
                /\ option_error' = PythonError(filled.raises)
                /\ UNCHANGED option_result
           ELSE /\ option_pc' = "returned"
                /\ option_result' = filled.options
                /\ UNCHANGED option_error
    /\ optionRest

\* the entry is one string
OptionOfString ==
    /\ option_pc = "call"
    /\ option_entry.kind = "str"
    /\ LET result == option_entry.parts[1]
           filled == Format(result, option_value.items)
       IN  IF CountPlaceholders(result) > 0
           THEN IF filled.raises # ""
                THEN /\ option_pc' = "raised"
                     /\ option_error' = PythonError(filled.raises)
                     /\ UNCHANGED option_result
                ELSE /\ option_pc' = "returned"
                     /\ option_result' = <<Text(filled.text)>>
                     /\ UNCHANGED option_error
           ELSE /\ option_pc' = "returned"
                /\ option_result' =
                       <<Text(result),
                         [text |-> <<>>, is_value |-> TRUE, value |-> option_value]>>
                /\ UNCHANGED option_error
    /\ optionRest

\* the command table has no entry under the key
OptionMissing ==
    /\ option_pc = "call"
    /\ option_entry.kind = "missing"
    /\ option_pc' = "raised"
    /\ option_error' = PythonError("KeyError")
    /\ UNCHANGED option_result
    /\ optionRest

OptionNext ==
    \/ OptionOfList
    \/ OptionOfString
    \/ OptionMissing

(***************************************************************************)
(* Pipeline.check_tools: multiprocessing.Pool(4) and imap_unordered over   *)
(* the configured tools.  The pool's workers take the tools in the order   *)
(* of the dict; the loop of check_tools takes the results as they come.    *)
(***************************************************************************)
MaxTools == 5

\* multiprocessing.Pool(4)
PoolSize == 4

ToolCheckFailed == [msg |-> "Tool check failed", args |-> {}]

ToolsIdle ==
    /\ tools = {}
    /\ tool_state = EmptyDict
    /\ tool_versions = {}
    /\ pool_state = "none"
    /\ max_in_progress = 0
    /\ tools_error = NoError
    /\ tools_pc = "idle"

ToolsInit ==
    /\ tools \in {1..n : n \in 0..MaxTools}
    /\ tool_state = [t \in tools |-> "queued"]
    /\ tool_versions = {}
    /\ pool_state = "none"
    /\ max_in_progress = 0
    /\ tools_error = NoError
    /\ tools_pc = "call"

toolsRest ==
    UNCHANGED <<tools, indexVars, buildVars, poolVars, copyVars, pingVars,
                taskVars, detectVars, optionVars, toolVars, stepVars>>

InProgress == {t \in tools : tool_state[t] = "running"}

\* a version of the pool whose workers are never all busy
WorkerAlwaysFree(in_progress) == TRUE

\* one of the pool's worker processes has no check to run
WorkerFree(in_progress) == Cardinality(in_progress) < PoolSize

\* "if 'tools' not in self.config: return"
NoToolsConfigured ==
    /\ tools_pc = "call"
    /\ tools = {}
    /\ tools_pc' = "returned"
    /\ UNCHANGED <<tool_state, tool_versions, pool_state, max_in_progress,
                   tools_error>>
    /\ toolsRest

\* the pool is made and handed the tools
OpenPool ==
    /\ tools_pc = "call"
    /\ pool_state' = "open"
    /\ tools_pc' = "loop"
    /\ UNCHANGED <<tool_state, tool_versions, max_in_progress, tools_error>>
    /\ toolsRest

\* a worker takes the next tool of the queue and calls check_tool
StartCheck ==
    /\ pool_state = "open"
    /\ WorkerFree(InProgress)
    /\ \E t \in tools :
        /\ tool_state[t] = "queued"
        /\ \A u \in tools : u < t => tool_state[u] # "queued"
        /\ tool_state' = [tool_state EXCEPT ![t] = "running"]
        /\ max_in_progress' =
               IF Cardinality(InProgress) + 1 > max_in_progress
               THEN Cardinality(InProgress) + 1
               ELSE max_in_progress
    /\ UNCHANGED <<tool_versions, pool_state, tools_error, tools_pc>>
    /\ toolsRest

\* check_tool returns its pair, or raises
FinishCheck(t, passed) ==
    /\ pool_state = "open"
    /\ tool_state[t] = "running"
    /\ tool_state' = [tool_state EXCEPT ![t] = IF passed THEN "done" ELSE "failed"]
    /\ UNCHANGED <<tool_versions, pool_state, max_in_progress, tools_error,
                   tools_pc>>
    /\ toolsRest

\* the for loop takes a result: self.tool_versions[tool_id] = tool_check_info
TakeResult(t) ==
    /\ tools_pc = "loop"
    /\ tool_state[t] = "done"
    /\ tool_state' = [tool_state EXCEPT ![t] = "taken"]
    /\ tool_versions' = tool_versions \cup {t}
    /\ UNCHANGED <<pool_state, max_in_progress, tools_error, tools_pc>>
    /\ toolsRest

\* the for loop takes the exception of a check: pool.terminate(), raise
TakeException(t) ==
    /\ tools_pc = "loop"
    /\ tool_state[t] = "failed"
    /\ tool_state' = [u \in tools |->
                         IF u = t THEN "raised"
                         ELSE IF tool_state[u] = "running" THEN "killed"
                         ELSE tool_state[u]]
    /\ pool_state' = "terminated"
    /\ tools_error' = ToolCheckFailed
    /\ tools_pc' = "raised"
    /\ UNCHANGED <<tool_versions, max_in_progress>>
    /\ toolsRest

\* the iterator is used up: pool.close(), pool.join(), return
ToolsChecked ==
    /\ tools_pc = "loop"
    /\ \A t \in tools : tool_state[t] = "taken"
    /\ pool_state' = "joined"
    /\ tools_pc' = "returned"
    /\ UNCHANGED <<tool_state, tool_versions, max_in_progress, tools_error>>
    /\ toolsRest

ToolsNext ==
    \/ NoToolsConfigured
    \/ OpenPool
    \/ StartCheck
    \/ \E t \in tools, passed \in BOOLEAN : FinishCheck(t, passed)
    \/ \E t \in tools : TakeResult(t)
    \/ \E t \in tools : TakeException(t)
    \/ ToolsChecked

(***************************************************************************)
(* check_tool and exec_pre_post_calls, for one tool.  tool_calls is the    *)
(* history of the commands the function has run.                           *)
(***************************************************************************)
MaxInfoCommands == 1

PreKeysSwapped == <<"pre_command", "module_load">>

PreKeys == <<"module_load", "pre_command">>

PostKeys == <<"module_unload", "post_command">>

InfoKeys == Range(PreKeys) \cup Range(PostKeys)

ExitCodes == {0, 1}

\* info: the number of commands under each key it has, the type of its
\* path, its exit_code
ToolInfos ==
    {[commands |-> c, path |-> p] :
        c \in UNION {[keys -> 1..MaxInfoCommands] : keys \in SUBSET InfoKeys},
        p \in {"str", "list", "int"}}

\* the (key, command) pairs the two for loops over the keys go through
RECURSIVE Pending(_, _)
Pending(keys, info) ==
    IF keys = <<>> THEN <<>>
    ELSE (IF Head(keys) \in DOMAIN info.commands
          THEN [i \in 1..info.commands[Head(keys)] |-> <<Head(keys), i>>]
          ELSE <<>>)
         \o Pending(Tail(keys), info)

KeysOf(pc) == IF pc = "pre" THEN PreKeys ELSE PostKeys

\* what running a command under this key can come to
CommandResults(key) ==
    {"ok", "OSError"}
    \cup (IF key \in {"module_load", "module_unload"} THEN {"NameError"} ELSE {})

\* the entries exec_pre_post_calls puts into tool_check_info for a key
InfoEntries(key) ==
    {<<key, "">>, <<key, "-exit-code">>}
    \cup (IF key \in {"module_load", "module_unload"} THEN {}
          ELSE {<<key, "-respone">>})

ProbeEntries ==
    {<<"command", "">>, <<"exit_code", "">>, <<"response", "">>, <<"used_path", "">>}

ToolError(name) == [msg |-> name, args |-> {}]

ToolIdle ==
    /\ tool_info = [commands |-> EmptyDict, path |-> "str"]
    /\ expected_exit_code = 0
    /\ tool_calls = <<>>
    /\ tool_check_info = {}
    /\ tool_step = 0
    /\ tool_error = NoError
    /\ tool_pc = "idle"

ToolInit ==
    /\ tool_info \in ToolInfos
    /\ expected_exit_code \in ExitCodes
    /\ tool_calls = <<>>
    /\ tool_check_info = {}
    /\ tool_step = 1
    /\ tool_error = NoError
    /\ tool_pc = "pre"

toolRest ==
    UNCHANGED <<tool_info, expected_exit_code, indexVars, buildVars, poolVars,
                copyVars, pingVars, taskVars, detectVars, optionVars, toolsVars, stepVars>>

\* exec_pre_post_calls runs one command of a key: Popen, communicate, and
\* exec(output) for the module keys
RunInfoCommand ==
    /\ tool_pc \in {"pre", "post"}
    /\ tool_step <= Len(Pending(KeysOf(tool_pc), tool_info))
    /\ LET key == Pending(KeysOf(tool_pc), tool_info)[tool_step][1]
       IN  \E result \in CommandResults(key) :
              /\ tool_calls' = Append(tool_calls,
                     [key |-> key, result |-> result, exit_code |-> 0])
              /\ IF result = "ok"
                 THEN /\ tool_check_info' = tool_check_info \cup InfoEntries(key)
                      /\ tool_step' = tool_step + 1
                      /\ UNCHANGED <<tool_error, tool_pc>>
                 ELSE /\ tool_pc' = "raised"
                      /\ tool_error' = ToolError("UAPError")
                      /\ UNCHANGED <<tool_check_info, tool_step>>
    /\ toolRest

\* the pre keys are through: the path is looked at
BadPath ==
    /\ tool_pc = "pre"
    /\ tool_step > Len(Pending(PreKeys, tool_info))
    /\ tool_info.path = "int"
    /\ tool_pc' = "raised"
    /\ tool_error' = ToolError("TypeError")
    /\ UNCHANGED <<tool_calls, tool_check_info, tool_step>>
    /\ toolRest

\* the pre keys are through: the version probe is run
Probe(started, exit_code) ==
    /\ tool_pc = "pre"
    /\ tool_step > Len(Pending(PreKeys, tool_info))
    /\ tool_info.path # "int"
    /\ tool_calls' = Append(tool_calls,
           [key |-> "probe", result |-> IF started THEN "ok" ELSE "OSError",
            exit_code |-> exit_code])
    /\ IF ~started
       THEN /\ tool_pc' = "raised"
            /\ tool_error' = ToolError("UAPError")
            /\ UNCHANGED <<tool_check_info, tool_step>>
       ELSE /\ tool_check_info' = tool_check_info \cup ProbeEntries
            /\ IF exit_code # expected_exit_code
               THEN /\ tool_pc' = "raised"
                    /\ tool_error' = ToolError("UAPError")
                    /\ UNCHANGED tool_step
               ELSE /\ tool_pc' = "post"
                    /\ tool_step' = 1
                    /\ UNCHANGED tool_error
    /\ toolRest

\* the post keys are through: return tool_id, tool_check_info
ToolChecked ==
    /\ tool_pc = "post"
    /\ tool_step > Len(Pending(PostKeys, tool_info))
    /\ tool_pc' = "returned"
    /\ UNCHANGED <<tool_calls, tool_check_info, tool_step, tool_error>>
    /\ toolRest

ToolNext ==
    \/ RunInfoCommand
    \/ BadPath
    \/ \E exit_code \in ExitCodes : Probe(TRUE, exit_code)
    \/ Probe(FALSE, 0)
    \/ ToolChecked

\* the state the constructor leaves before build_steps runs
BuildIdle ==
    /\ steps = {}
    /\ dependencies = EmptyDict
    /\ step_type = EmptyDict
    /\ unassigned_steps = {}
    /\ assigned_steps = {}
    /\ topological_step_order = <<>>
    /\ build_rounds = <<>>
    /\ build_pc = "idle"
    /\ build_error = NoError

(***************************************************************************)
(* Specifications.                                                         *)
(***************************************************************************)

(***************************************************************************)
(* SegemehlGenerateIndex.runs (include/steps/segemehl_generate_index.py)   *)
(* and the execution of the exec group it declares.                        *)
(*                                                                         *)
(* A path is a number: index_fifo is 0, the FIFO of the i-th reference     *)
(* sequence file is i.  A block is what one write of dd (bs=4M) moves; a   *)
(* FIFO holds less than a block, so a write ends when the reader has taken *)
(* it.  open() of a FIFO returns when the other end is opened as well.     *)
(* Two disciplines run the group: `strict` starts a command when the one   *)
(* before it has ended; otherwise commands are started one after the other *)
(* without waiting, as ProcessPool._launch_all_processes does.             *)
(***************************************************************************)
MaxRefseq == 2

MaxBlocks == 2

index_fifo == 0

seq_fifo(i) == i

\* the path named by '" ".join(refseq_fifos)' for two or more FIFOs, read as
\* one file name: no such file
JoinedPath == MaxRefseq + 1

ExecPaths == 0..JoinedPath

Command(tool, plan, blocks) == [tool |-> tool, plan |-> plan, blocks |-> blocks]

PlanStep(op, path) == [op |-> op, path |-> path]

\* "mkfifo seq_fifo"
mkfifo_seq(i) == Command("mkfifo", <<PlanStep("mkfifo", seq_fifo(i))>>, 0)

\* "dd bs=4M if=seq_file of=seq_fifo": opens the FIFO for writing and copies
\* the file into it
dd_refseq(i, size) == Command("dd", <<PlanStep("w", seq_fifo(i))>>, size)

\* "mkfifo index_fifo"
mkfifo_index == Command("mkfifo", <<PlanStep("mkfifo", index_fifo)>>, 0)

\* the files segemehl reads for "--database <joined names>"
Database(files, splits) ==
    IF Len(files) = 1 \/ splits
    THEN [i \in 1..Len(files) |-> seq_fifo(i)]
    ELSE <<JoinedPath>>

\* "segemehl --generate index_fifo --database ...": reads the database files
\* to their end one after the other, then opens index_fifo and writes the
\* index, one block
segemehl(files, splits) ==
    Command("segemehl",
            [i \in 1..Len(Database(files, splits)) |->
                PlanStep("r", Database(files, splits)[i])]
            \o <<PlanStep("w", index_fifo)>>,
            1)

\* "dd bs=4M if=index_fifo": reads the FIFO to its end
dd_index == Command("dd", <<PlanStep("r", index_fifo)>>, 0)

\* the loop "for seq_file in refseq": a mkfifo and a dd per file
RECURSIVE AddedForRefseq(_, _)
AddedForRefseq(files, i) ==
    IF i = 0 THEN <<>>
    ELSE AddedForRefseq(files, i - 1) \o <<mkfifo_seq(i), dd_refseq(i, files[i])>>

\* the commands of the exec group, in the order of the add_command calls
ExecGroupOf(files, splits) ==
    AddedForRefseq(files, Len(files))
    \o <<mkfifo_index, segemehl(files, splits), dd_index>>

RefseqLists ==
    UNION {[1..n -> 1..MaxBlocks] : n \in 1..MaxRefseq}

ExecIdle ==
    /\ refseq = <<>>
    /\ database_splits = FALSE
    /\ strict = FALSE
    /\ exec_group = <<>>
    /\ n_started = 0
    /\ cmd_pc = <<>>
    /\ cmd_phase = <<>>
    /\ cmd_open = <<>>
    /\ cmd_left = <<>>
    /\ path_kind = [path \in ExecPaths |-> "none"]
    /\ exec_pc = "idle"


ExecInit ==
    /\ refseq \in RefseqLists
    /\ database_splits \in BOOLEAN
    /\ strict \in BOOLEAN
    /\ exec_group = <<>>
    /\ n_started = 0
    /\ cmd_pc = <<>>
    /\ cmd_phase = <<>>
    /\ cmd_open = <<>>
    /\ cmd_left = <<>>
    /\ path_kind = [path \in ExecPaths |-> "none"]
    /\ exec_pc = "declare"

execOthers ==
    UNCHANGED <<indexVars, buildVars, poolVars, copyVars, pingVars, taskVars,
                detectVars, optionVars, toolsVars, toolVars, chromVars, keysVars>>

execRest == UNCHANGED <<refseq, database_splits, strict>> /\ execOthers

\* SegemehlGenerateIndex.runs, for one run
runs_segemehl ==
    /\ exec_pc = "declare"
    /\ exec_group' = ExecGroupOf(refseq, database_splits)
    /\ exec_pc' = "exec"
    /\ UNCHANGED <<n_started, cmd_pc, cmd_phase, cmd_open, cmd_left, path_kind>>
    /\ execRest

\* the next command of the group is started
StartCommand ==
    /\ exec_pc = "exec"
    /\ n_started < Len(exec_group)
    /\ (strict /\ n_started > 0) => cmd_pc[n_started] # "running"
    /\ n_started' = n_started + 1
    /\ cmd_pc' = Append(cmd_pc, "running")
    /\ cmd_phase' = Append(cmd_phase, 1)
    /\ cmd_open' = Append(cmd_open, FALSE)
    /\ cmd_left' = Append(cmd_left, exec_group[n_started + 1].blocks)
    /\ UNCHANGED <<exec_group, path_kind, exec_pc>>
    /\ execRest

Running(c) == c \in 1..n_started /\ cmd_pc[c] = "running"

\* the step of its plan a command is at
Cur(c) == exec_group[c].plan[cmd_phase[c]]

\* the command is through with the step it is at: it closes the path and
\* goes on to the next step, or ends
Advance(c) ==
    /\ cmd_open' = [cmd_open EXCEPT ![c] = FALSE]
    /\ IF cmd_phase[c] = Len(exec_group[c].plan)
       THEN cmd_pc' = [cmd_pc EXCEPT ![c] = "exited"] /\ UNCHANGED cmd_phase
       ELSE cmd_phase' = [cmd_phase EXCEPT ![c] = @ + 1] /\ UNCHANGED cmd_pc

\* the command ends with an error
Fail(c) ==
    /\ cmd_pc' = [cmd_pc EXCEPT ![c] = "failed"]
    /\ UNCHANGED <<cmd_phase, cmd_open>>

\* mkfifo makes the FIFO, or fails when the path exists
Mkfifo(c) ==
    /\ Running(c)
    /\ Cur(c).op = "mkfifo"
    /\ IF path_kind[Cur(c).path] = "none"
       THEN /\ path_kind' = [path_kind EXCEPT ![Cur(c).path] = "fifo"]
            /\ cmd_pc' = [cmd_pc EXCEPT ![c] = "exited"]
            /\ UNCHANGED <<cmd_phase, cmd_open>>
       ELSE Fail(c) /\ UNCHANGED path_kind
    /\ UNCHANGED <<exec_group, n_started, cmd_left, exec_pc>>
    /\ execRest

\* open() of a path that is no FIFO returns at once: for writing it makes a
\* regular file, for reading it needs one
OpenFile(c) ==
    /\ Running(c)
    /\ Cur(c).op \in {"r", "w"}
    /\ ~cmd_open[c]
    /\ path_kind[Cur(c).path] # "fifo"
    /\ IF Cur(c).op = "w"
       THEN /\ path_kind' = [path_kind EXCEPT ![Cur(c).path] = "file"]
            /\ cmd_open' = [cmd_open EXCEPT ![c] = TRUE]
            /\ UNCHANGED <<cmd_pc, cmd_phase>>
       ELSE /\ UNCHANGED path_kind
            /\ IF path_kind[Cur(c).path] = "file"
               THEN cmd_open' = [cmd_open EXCEPT ![c] = TRUE]
                    /\ UNCHANGED <<cmd_pc, cmd_phase>>
               ELSE Fail(c)
    /\ UNCHANGED <<exec_group, n_started, cmd_left, exec_pc>>
    /\ execRest

\* open() of a FIFO: the open for writing and the open for reading return
\* together
OpenFifo(writer, reader) ==
    /\ Running(writer) /\ Running(reader)
    /\ Cur(writer).op = "w" /\ Cur(reader).op = "r"
    /\ Cur(writer).path = Cur(reader).path
    /\ path_kind[Cur(writer).path] = "fifo"
    /\ ~cmd_open[writer] /\ ~cmd_open[reader]
    /\ cmd_open' = [cmd_open EXCEPT ![writer] = TRUE, ![reader] = TRUE]
    /\ UNCHANGED <<exec_group, n_started, cmd_pc, cmd_phase, cmd_left, path_kind,
                   exec_pc>>
    /\ execRest

\* the commands that have the path of c's step open at the other end
Peers(c) ==
    {d \in 1..n_started :
        /\ Running(d) /\ cmd_open[d]
        /\ Cur(d).path = Cur(c).path
        /\ Cur(d).op # Cur(c).op}

\* write() of one block: into a file, or into a FIFO whose reader takes it;
\* with no reader left the writer dies of SIGPIPE
WriteBlock(c) ==
    /\ Running(c)
    /\ Cur(c).op = "w"
    /\ cmd_open[c]
    /\ cmd_left[c] > 0
    /\ IF path_kind[Cur(c).path] = "fifo" /\ Peers(c) = {}
       THEN Fail(c) /\ UNCHANGED cmd_left
       ELSE /\ cmd_left' = [cmd_left EXCEPT ![c] = @ - 1]
            /\ UNCHANGED <<cmd_pc, cmd_phase, cmd_open>>
    /\ UNCHANGED <<exec_group, n_started, path_kind, exec_pc>>
    /\ execRest

\* everything is written: close
CloseWrite(c) ==
    /\ Running(c)
    /\ Cur(c).op = "w"
    /\ cmd_open[c]
    /\ cmd_left[c] = 0
    /\ Advance(c)
    /\ UNCHANGED <<exec_group, n_started, cmd_left, path_kind, exec_pc>>
    /\ execRest

\* read() gives end-of-file: of a file, or of a FIFO no writer has open
ReadEof(c) ==
    /\ Running(c)
    /\ Cur(c).op = "r"
    /\ cmd_open[c]
    /\ path_kind[Cur(c).path] = "fifo" => Peers(c) = {}
    /\ Advance(c)
    /\ UNCHANGED <<exec_group, n_started, cmd_left, path_kind, exec_pc>>
    /\ execRest

\* every command of the group has been started and has ended
GroupDone ==
    /\ exec_pc = "exec"
    /\ n_started = Len(exec_group)
    /\ \A c \in 1..n_started : ~Running(c)
    /\ exec_pc' = "done"
    /\ UNCHANGED <<exec_group, n_started, cmd_pc, cmd_phase, cmd_open, cmd_left,
                   path_kind>>
    /\ execRest

ExecNext ==
    \/ runs_segemehl
    \/ StartCommand
    \/ \E c \in 1..n_started : Mkfifo(c)
    \/ \E c \in 1..n_started : OpenFile(c)
    \/ \E writer \in 1..n_started, reader \in 1..n_started : OpenFifo(writer, reader)
    \/ \E c \in 1..n_started : WriteBlock(c)
    \/ \E c \in 1..n_started : CloseWrite(c)
    \/ \E c \in 1..n_started : ReadEof(c)
    \/ GroupDone



(***************************************************************************)
(* ChromHmmBinarizeBam.runs (include/steps/chromhmm_binarizebam.py): the   *)
(* loop over the lines of cell_mark_files[run_id].                         *)
(***************************************************************************)
MaxLines == 2

ChromRunIds == {"m", "c"}

\* run_ids_connections_files[run_id]['in/alignments'], for each run
ConnectionsFiles ==
    {[m |-> mark, c |-> control] :
        mark \in {<<"m1">>, <<"m1", "m2">>}, control \in {<<>>, <<"c1">>}}

\* a line of three entries, or of four with the run id of the control
CellMarkLines ==
    {<<"cell", "mark", run>> : run \in ChromRunIds}
    \cup {<<"cell", "mark", run, control>> : run \in ChromRunIds, control \in ChromRunIds}

CellMarkFiles == UNION {[1..n -> CellMarkLines] : n \in 1..MaxLines}

ChromIdle ==
    /\ connections_files = EmptyDict
    /\ cell_mark_lines = <<>>
    /\ line_pos = 1
    /\ input_files = <<>>
    /\ cellmarkfiletable = <<>>
    /\ pre_chromhmm = <<>>
    /\ chrom_pc = "idle"

\* inside the exec group pre_chromhmm, the mkdir command added
ChromInit ==
    /\ connections_files \in ConnectionsFiles
    /\ cell_mark_lines \in CellMarkFiles
    /\ line_pos = 1
    /\ input_files = <<>>
    /\ cellmarkfiletable = <<>>
    /\ pre_chromhmm = <<[tool |-> "mkdir", arg |-> "bam-files"]>>
    /\ chrom_pc = "lines"

\* "mark_files = run_ids_connections_files[line[2]]['in/alignments']"
MarkFiles(files, line) == files[line[3]]

\* "control_files = run_ids_connections_files[line[2]]['in/alignments']"
\* inside try: the subscript of `line` is 2 here as well, the third entry
ControlFiles(files, line) == files[line[3]]

\* the name link_file gives the link to f: basename of
\* run.add_temporary_file('bam-files/<basename of f>')
LinkName(f) == <<"link", f>>

\* the command link_file adds
LnCommand(f) == [tool |-> "ln", arg |-> f]

\* "[(m, c) for m in mark_files for c in control_files]"
RECURSIVE Pairs(_, _)
Pairs(mark_files, control_files) ==
    IF mark_files = <<>> THEN <<>>
    ELSE [i \in DOMAIN control_files |-> <<Head(mark_files), control_files[i]>>]
         \o Pairs(Tail(mark_files), control_files)

\* "bol = '%s\t%s' % (line[0], line[1])"
Bol(line) == <<line[1], line[2]>>

\* the rows a line adds to cellmarkfiletable
RowsOf(mark_files, control_files, line) ==
    IF mark_files # <<>> /\ control_files # <<>>
    THEN LET mc == Pairs(mark_files, control_files)
         IN  [i \in DOMAIN mc |->
                 Bol(line) \o <<LinkName(mc[i][1]), LinkName(mc[i][2])>>]
    ELSE [i \in DOMAIN mark_files |-> Bol(line) \o <<LinkName(mark_files[i])>>]

\* the ln commands a line adds, in the order of the link_file calls
LinksOf(mark_files, control_files) ==
    IF mark_files # <<>> /\ control_files # <<>>
    THEN LET mc == Pairs(mark_files, control_files)
         IN  [i \in 1..(2 * Len(mc)) |->
                 LnCommand(mc[(i + 1) \div 2][IF i % 2 = 1 THEN 1 ELSE 2])]
    ELSE [i \in DOMAIN mark_files |-> LnCommand(mark_files[i])]

\* "input_files.extend(...)"
InputsOf(mark_files, control_files) ==
    IF mark_files # <<>> /\ control_files # <<>>
    THEN mark_files \o control_files
    ELSE mark_files

chromOthers ==
    UNCHANGED <<indexVars, buildVars, poolVars, copyVars, pingVars, taskVars,
                detectVars, optionVars, toolsVars, toolVars, execVars, keysVars>>

\* one round of "for line in cell_mark_files[run_id]"
ChromLine ==
    /\ chrom_pc = "lines"
    /\ line_pos <= Len(cell_mark_lines)
    /\ LET line == cell_mark_lines[line_pos]
           mark_files == MarkFiles(connections_files, line)
           control_files == ControlFiles(connections_files, line)
       IN  /\ input_files' = input_files \o InputsOf(mark_files, control_files)
           /\ cellmarkfiletable' =
                 cellmarkfiletable \o RowsOf(mark_files, control_files, line)
           /\ pre_chromhmm' = pre_chromhmm \o LinksOf(mark_files, control_files)
    /\ line_pos' = line_pos + 1
    /\ UNCHANGED <<connections_files, cell_mark_lines, chrom_pc>>
    /\ chromOthers

\* after the loop: the printf command that writes the table
ChromPrintf ==
    /\ chrom_pc = "lines"
    /\ line_pos > Len(cell_mark_lines)
    /\ pre_chromhmm' = Append(pre_chromhmm, [tool |-> "printf", arg |-> "cellmarkfiletable"])
    /\ chrom_pc' = "done"
    /\ UNCHANGED <<connections_files, cell_mark_lines, line_pos, input_files,
                   cellmarkfiletable>>
    /\ chromOthers

ChromNext == ChromLine \/ ChromPrintf

(***************************************************************************)
(* Pipeline.build_steps, step one: a step object per key of                *)
(* config['steps'].  A key is a list of tokens: a word is a run of         *)
(* [a-zA-Z0-9_], " " a run of white space, "(" and ")" themselves.         *)
(***************************************************************************)
MaxKeys == 3

Words == {"x", "y", "temp"}

\* re_simple_key: '^[a-zA-Z0-9_]+$'
re_simple_key(step_key) == Len(step_key) = 1 /\ step_key[1] \in Words

\* re_complex_key: '^([a-zA-Z0-9_]+)\s+\(([a-zA-Z0-9_]+)\)$'
re_complex_key(step_key) ==
    /\ Len(step_key) = 5
    /\ step_key[1] \in Words
    /\ step_key[2] = " "
    /\ step_key[3] = "("
    /\ step_key[4] \in Words
    /\ step_key[5] = ")"

\* step_name of a key: the key itself, or group(1) of the complex match
StepNameOf(step_key) ==
    IF re_simple_key(step_key) THEN step_key[1]
    ELSE IF re_complex_key(step_key) THEN step_key[1]
    ELSE "None"

\* module_name of a key: the key itself, or group(2) of the complex match
ModuleNameOf(step_key) ==
    IF re_simple_key(step_key) THEN step_key[1]
    ELSE IF re_complex_key(step_key) THEN step_key[4]
    ELSE "None"

StepKeys ==
    {<<w>> : w \in Words}
    \cup {<<w, " ", "(", v, ")">> : w \in Words, v \in {"x", "y"}}

\* the keys of a dict: no key twice
ConfigSteps ==
    {keys \in UNION {[1..n -> StepKeys] : n \in 0..MaxKeys} :
        \A i \in DOMAIN keys, j \in DOMAIN keys : keys[i] = keys[j] => i = j}

KeysIdle ==
    /\ config_steps = <<>>
    /\ key_pos = 1
    /\ step_objects = EmptyDict
    /\ keys_pc = "idle"
    /\ keys_error = NoException

\* "self.steps = {}", config['steps'] present
KeysInit ==
    /\ config_steps \in ConfigSteps
    /\ key_pos = 1
    /\ step_objects = EmptyDict
    /\ keys_pc = "keys"
    /\ keys_error = NoException

StepIdle == ExecIdle /\ ChromIdle /\ KeysIdle

keysOthers ==
    UNCHANGED <<indexVars, buildVars, poolVars, copyVars, pingVars, taskVars,
                detectVars, optionVars, toolsVars, toolVars, execVars, chromVars>>

\* "self.steps[step_name] = step": the entry of that name is set, whether
\* or not there is one
SetStep(d, step_name, step) == DictSet(d, step_name, step)

\* one round of "for step_key, step_description in self.config['steps'].items()"
InstantiateStep ==
    /\ keys_pc = "keys"
    /\ key_pos <= Len(config_steps)
    /\ LET step_key == config_steps[key_pos]
           step_name == StepNameOf(step_key)
           module_name == ModuleNameOf(step_key)
       IN  IF step_name = "temp"
           THEN /\ keys_pc' = "raised"
                /\ keys_error' = "A step name cannot be 'temp'."
                /\ UNCHANGED <<step_objects, key_pos>>
           ELSE /\ step_objects' =
                      SetStep(step_objects, step_name,
                              [step_name |-> step_name, module_name |-> module_name,
                               step_key |-> step_key])
                /\ key_pos' = key_pos + 1
                /\ UNCHANGED <<keys_pc, keys_error>>
    /\ UNCHANGED config_steps
    /\ keysOthers

\* the loop is over: build_steps goes on to step two
StepsInstantiated ==
    /\ keys_pc = "keys"
    /\ key_pos > Len(config_steps)
    /\ keys_pc' = "done"
    /\ UNCHANGED <<config_steps, key_pos, step_objects, keys_error>>
    /\ keysOthers

KeysNext == InstantiateStep \/ StepsInstantiated

IndexOnly ==
    IndexInit /\ BuildIdle /\ PoolIdle /\ CopyIdle /\ PingIdle
    /\ TasksIdle /\ DetectIdle /\ OptionIdle /\ ToolsIdle /\ ToolIdle /\ StepIdle

SpecIndex == IndexOnly /\ [][IndexNext]_vars

BuildOnly ==
    BuildInit /\ IndexInit /\ PoolIdle /\ CopyIdle /\ PingIdle
    /\ TasksIdle /\ DetectIdle /\ OptionIdle /\ ToolsIdle /\ ToolIdle /\ StepIdle

SpecBuild == BuildOnly /\ [][BuildNext]_vars

LaunchOnly ==
    LaunchInit /\ IndexInit /\ BuildIdle /\ CopyIdle /\ PingIdle
    /\ TasksIdle /\ DetectIdle /\ OptionIdle /\ ToolsIdle /\ ToolIdle /\ StepIdle

SpecLaunch == LaunchOnly /\ [][LaunchNext]_vars

\* the with block left either way
ExitNext == LaunchNext \/ Pool_exit_raised

SpecExit == LaunchOnly /\ [][ExitNext]_vars

WaitOnly ==
    WaitInit /\ IndexInit /\ BuildIdle /\ CopyIdle /\ PingIdle
    /\ TasksIdle /\ DetectIdle /\ OptionIdle /\ ToolsIdle /\ ToolIdle /\ StepIdle

SpecWait == WaitOnly /\ [][WaitNext]_vars

WaitPipelineOnly ==
    WaitPipelineInit /\ IndexInit /\ BuildIdle /\ CopyIdle /\ PingIdle
    /\ TasksIdle /\ DetectIdle /\ OptionIdle /\ ToolsIdle /\ ToolIdle /\ StepIdle

\* the statuses of SpecWaitFair: success, and one failure (exit code 1)
ExitStatuses == {0, 256}

\* the pool's own process takes its next step: wait3 returns when a child
\* has ended and raises when none is left; __exit__ goes on after _wait
PoolStep ==
    \/ \E pid \in DOMAIN child_state, st \in ExitStatuses : Wait3Child(pid, st)
    \/ Wait3NoChild
    \/ Exit_unlink
    \/ Exit_reraise

\* the clock of the alarm
AlarmStep == Tick \/ SigAlrm

\* a listener whose stream has ended writes its report and ends
ListenerEnds == \E pid \in DOMAIN child_state : CopyProcessDone(pid)

\* a listener whose stream has ended and whose pipe is read writes its
\* report and ends
ListenerStep ==
    \E pid \in DOMAIN child_state :
        IsListener(pid) /\ PipeDrained(pid) /\ CopyProcessDone(pid)

\* What runs on its own: the pool's process, the clock and the listeners.
\* Nothing makes a command end.
WaitFairness ==
    /\ WF_vars(PoolStep)
    /\ WF_vars(AlarmStep)
    /\ WF_vars(ListenerStep)

WaitFairNext ==
    \/ \E pid \in DOMAIN child_state : ChildExits(pid)
    \/ ListenerEnds
    \/ PoolStep
    \/ AlarmStep

SpecWaitFair == WaitPipelineOnly /\ [][WaitFairNext]_vars /\ WaitFairness

CopyOnly ==
    CopyInit /\ IndexInit /\ BuildIdle /\ PoolIdle /\ PingIdle
    /\ TasksIdle /\ DetectIdle /\ OptionIdle /\ ToolsIdle /\ ToolIdle /\ StepIdle

SpecCopy == CopyOnly /\ [][CopyNext]_vars

ExecOnly ==
    ExecInit /\ IndexInit /\ BuildIdle /\ PoolIdle /\ CopyIdle /\ PingIdle
    /\ TasksIdle /\ DetectIdle /\ OptionIdle /\ ToolsIdle /\ ToolIdle
    /\ ChromIdle /\ KeysIdle

SpecExecGroup == ExecOnly /\ [][ExecNext]_vars

ChromOnly ==
    ChromInit /\ IndexInit /\ BuildIdle /\ PoolIdle /\ CopyIdle /\ PingIdle
    /\ TasksIdle /\ DetectIdle /\ OptionIdle /\ ToolsIdle /\ ToolIdle
    /\ ExecIdle /\ KeysIdle

SpecChrom == ChromOnly /\ [][ChromNext]_vars

KeysOnly ==
    KeysInit /\ IndexInit /\ BuildIdle /\ PoolIdle /\ CopyIdle /\ PingIdle
    /\ TasksIdle /\ DetectIdle /\ OptionIdle /\ ToolsIdle /\ ToolIdle
    /\ ExecIdle /\ ChromIdle

SpecKeys == KeysOnly /\ [][KeysNext]_vars

PingOnly ==
    PingInit /\ IndexInit /\ BuildIdle /\ PoolIdle /\ CopyIdle
    /\ TasksIdle /\ DetectIdle /\ OptionIdle /\ ToolsIdle /\ ToolIdle /\ StepIdle

SpecPing == PingOnly /\ [][PingNext]_vars

\* build_steps has placed the steps
TasksBuilt == \E order \in StepOrders : BuildDone(order)

TasksOnly ==
    TasksBuilt /\ TasksInit /\ IndexInit /\ PoolIdle /\ CopyIdle /\ PingIdle
    /\ DetectIdle /\ OptionIdle /\ ToolsIdle /\ ToolIdle /\ StepIdle

SpecTasks == TasksOnly /\ [][TasksNext]_vars

DetectOnly ==
    DetectInit /\ IndexInit /\ BuildIdle /\ PoolIdle /\ CopyIdle /\ PingIdle
    /\ TasksIdle /\ OptionIdle /\ ToolsIdle /\ ToolIdle /\ StepIdle

SpecDetect == DetectOnly /\ [][DetectNext]_vars

OptionOnly ==
    OptionInit /\ IndexInit /\ BuildIdle /\ PoolIdle /\ CopyIdle /\ PingIdle
    /\ TasksIdle /\ DetectIdle /\ ToolsIdle /\ ToolIdle /\ StepIdle

SpecOption == OptionOnly /\ [][OptionNext]_vars

ToolsOnly ==
    ToolsInit /\ IndexInit /\ BuildIdle /\ PoolIdle /\ CopyIdle /\ PingIdle
    /\ TasksIdle /\ DetectIdle /\ OptionIdle /\ ToolIdle /\ StepIdle

SpecTools == ToolsOnly /\ [][ToolsNext]_vars

ToolOnly ==
    ToolInit /\ IndexInit /\ BuildIdle /\ PoolIdle /\ CopyIdle /\ PingIdle
    /\ TasksIdle /\ DetectIdle /\ OptionIdle /\ ToolsIdle /\ StepIdle

SpecTool == ToolOnly /\ [][ToolNext]_vars

(***************************************************************************)
(* C1..C4: output ownership and the step order.                            *)
(***************************************************************************)

\* C1: every registered output path is in the output set of exactly one task
\* id, the one it is mapped to; the output sets of two task ids are disjoint;
\* add_task_for_output_file raises exactly when the path is already
\* registered, and then the owner stays who it was.
C1_OutputOwnership ==
    /\ \A p \in DOMAIN task_id_for_output_file :
          {t \in DOMAIN output_files_for_task_id : p \in output_files_for_task_id[t]}
              = {task_id_for_output_file[p]}
    /\ \A t1, t2 \in DOMAIN output_files_for_task_id :
          t1 # t2 => output_files_for_task_id[t1] \cap output_files_for_task_id[t2] = {}
    /\ index_call.op = "output" =>
          /\ index_call.raised <=> index_call.known
          /\ task_id_for_output_file[index_call.path] =
                 (IF index_call.known THEN index_call.owner ELSE index_call.task)

\* a duplicate registration by another task was rejected while two tasks own files
C1_Witness ==
    /\ index_call.op = "output"
    /\ index_call.raised
    /\ index_call.owner # index_call.task
    /\ Cardinality(DOMAIN output_files_for_task_id) = 2

RECURSIVE ReachFrom(_, _)
ReachFrom(frontier, seen) ==
    LET new == UNION {dependencies[x] : x \in frontier} \ seen
    IN  IF new = {} THEN seen ELSE ReachFrom(new, seen \cup new)

\* the steps s depends on, directly or through other steps
DependsOnPlus(s) == ReachFrom({s}, {})

OnCycle(s) == s \in DependsOnPlus(s)

HasCycle == \E s \in steps : OnCycle(s)

Position(seq, x) == CHOOSE i \in DOMAIN seq : seq[i] = x

\* C2: when build_steps succeeds, topological_step_order holds every
\* configured step exactly once, every step after all the steps of its
\* _depends list, and the steps of one round in natural-sort order.
C2_TopologicalOrder ==
    build_pc = "finalized" =>
        /\ Len(topological_step_order) = Cardinality(steps)
        /\ Range(topological_step_order) = steps
        /\ \A s \in steps : \A d \in dependencies[s] :
              Position(topological_step_order, d) < Position(topological_step_order, s)
        /\ \A r \in DOMAIN build_rounds : \A i, j \in DOMAIN build_rounds[r] :
              i < j => ~KeyLess(AlphanumKey(build_rounds[r][j]),
                                AlphanumKey(build_rounds[r][i]))
        /\ \A r \in DOMAIN build_rounds : \A i, j \in DOMAIN build_rounds[r] :
              i < j => Position(topological_step_order, build_rounds[r][i])
                           < Position(topological_step_order, build_rounds[r][j])

\* a successful build with a dependency and a round that placed "s2" before "s10"
C2_Witness ==
    /\ build_pc = "finalized"
    /\ \E s \in steps : dependencies[s] # {}
    /\ \E r \in DOMAIN build_rounds :
          build_rounds[r] = <<(<<"s", "2">>), (<<"s", "1", "0">>)>>

\* C3: a configuration with a cycle in _depends (a self-dependency included)
\* never finishes build_steps with an order, it ends with the cycle error;
\* and the ordering loop terminates: every round but the last places at least
\* one step, so there are at most as many rounds as steps, and while the loop
\* runs its next round can be taken.
C3_CycleRaises ==
    /\ HasCycle => build_pc # "finalized"
    /\ (HasCycle /\ build_pc # "sort") => (build_pc = "raised" /\ build_error = CycleError)
    /\ build_pc = "raised" => HasCycle
    /\ Len(build_rounds) <= Cardinality(steps)
    /\ Len(build_rounds) + Cardinality(unassigned_steps) <= Cardinality(steps)
    /\ build_pc = "sort" => ENABLED BuildNext

\* the cycle error was raised after one round placed a step, for a cycle of
\* two steps
C3_Witness ==
    /\ build_pc = "raised"
    /\ Len(build_rounds) >= 1
    /\ \E s, t \in steps : s # t /\ t \in dependencies[s] /\ s \in dependencies[t]

IsCommand(pid) == "call" \in DOMAIN proc_details[pid]

Commands == {pid \in DOMAIN proc_details : IsCommand(pid)}

\* the commands registered with pool.launch, not through a Pipeline
OwnCommands == {pid \in Commands : launch_calls[proc_details[pid].call].class = "dict"}

StdListener(pid, which) ==
    CHOOSE l \in DOMAIN proc_details :
        /\ "listener_for" \in DOMAIN proc_details[l]
        /\ proc_details[l].listener_for = <<pid, which>>

\* registered earlier: an earlier call, or earlier in the same Pipeline
RegisteredBefore(p, q) ==
    \/ proc_details[p].call < proc_details[q].call
    \/ /\ proc_details[p].call = proc_details[q].call
       /\ proc_details[p].index < proc_details[q].index

LaunchStep ==
    \/ LaunchCommand
    \/ LaunchPipelineBegin
    \/ LaunchPipelineCommand
    \/ LaunchPipelineEnd
    \/ LaunchAllDone

C6_PipelineWiring ==
    LET cmds == Commands
        at   == {i \in DOMAIN proc_order : proc_order[i] \in cmds}
        out  == [p \in cmds |-> listener_pipe[StdListener(p, "stdout")]]
        err  == [p \in cmds |-> listener_pipe[StdListener(p, "stderr")]]
    IN  /\ \A p \in cmds :
              LET k == proc_details[p].index
                  n == launch_calls[proc_details[p].call].append_calls
              IN  launch_calls[proc_details[p].call].class = "Pipeline" =>
                    /\ k = 0 => /\ child_stdin[p] = None
                                /\ "use_stdin_of" \notin DOMAIN proc_details[p]
                    /\ k > 0 =>
                          \E q \in cmds :
                              /\ proc_details[q].call = proc_details[p].call
                              /\ proc_details[q].index = k - 1
                              /\ q < p
                              /\ proc_details[p].use_stdin_of = q
                              /\ child_stdin[p] # None
                              /\ child_stdin[p] = out[q]
                    /\ (pool_pc # "body" /\ k = n - 1) => out[p] = None
                    /\ (pool_pc # "body" /\ k < n - 1) => out[p] # None
                    /\ err[p] = None
        /\ \A p, q \in cmds :
              (p # q /\ child_stdin[p] # None) => child_stdin[p] # child_stdin[q]
        /\ \A l, m \in DOMAIN listener_pipe :
              (l # m /\ listener_pipe[l] # None) => listener_pipe[l] # listener_pipe[m]
        /\ \A i, j \in at :
              (/\ proc_details[proc_order[i]].call = proc_details[proc_order[j]].call
               /\ proc_details[proc_order[i]].index < proc_details[proc_order[j]].index)
                  => i < j

\* a Pipeline of three commands has been launched
C6_Witness ==
    /\ pool_pc = "wait"
    /\ \E c \in DOMAIN launch_calls :
          /\ launch_calls[c].class = "Pipeline"
          /\ launch_calls[c].append_calls = 3
          /\ Cardinality({p \in Commands : proc_details[p].call = c}) = 3

WaitEnded == pool_pc \in {"returned", "raised"}

\* the child has been reaped with a status that is not exit code 0
EndedBadly(pid) ==
    \/ "signal" \in DOMAIN proc_details[pid]
    \/ "exit_code" \in DOMAIN proc_details[pid] /\ proc_details[pid].exit_code # 0

\* C7: _wait ends by raising "Pipeline crashed." exactly when some launched
\* child ended with a non-zero exit status or by a signal, and returns
\* normally otherwise.
C7_CrashedIffChildFailed ==
    WaitEnded =>
        /\ (wait_error = "StandardError: Pipeline crashed.")
              <=> (\E pid \in DOMAIN proc_details : EndedBadly(pid))
        /\ (pool_pc = "returned")
              <=> (\A pid \in DOMAIN proc_details : ~EndedBadly(pid))

\* C8: whenever control leaves _wait, by return or by any exception,
\* running_procs is empty and every launched child has been reaped.
C8_WaitEndsOnlyWhenAllReaped ==
    WaitEnded =>
        /\ running_procs = {}
        /\ \A pid \in DOMAIN child_state : child_state[pid] = "reaped"

\* C9: once the grace period armed by a failed child has expired, every child
\* that was still running then has been sent SIGTERM.
C9_SigtermAtExpiry ==
    alarm_expired =>
        \A pid \in running_procs :
            child_state[pid] = "running" => <<pid, "SIGTERM">> \in signals_sent

\* C10: once the grace period has expired, every child that has not been
\* reaped has been sent SIGKILL.
C10_SigkillAfterGrace ==
    alarm_expired =>
        \A pid \in DOMAIN child_state :
            child_state[pid] # "reaped" => <<pid, "SIGKILL">> \in signals_sent

(***************************************************************************)
(* C11..C17: temporary paths, the stream listener, pipes, wait statuses.   *)
(***************************************************************************)
ExitEnded == pool_pc \in {"exit_returned", "exit_raised"}

\* C11: when the with block of a ProcessPool is left, no path handed out by
\* get_temporary_path or get_temporary_fifo exists any more, whether all
\* children succeeded or the pipeline crashed.
C11_TempPathsUnlinkedAtExit ==
    ExitEnded => existing_paths \cap Range(temp_paths) = {}

\* C12: a listener that writes its report has given the checksum exactly the
\* bytes it wrote to the pipe, and to the sink file when there is one, in
\* the same order; the hash in the report is the hash of what went down the
\* pipe.
C12_ChecksumOfWhatWasWritten ==
    report.written =>
        /\ has_pipe => /\ pipe_written = checksum
                       /\ report.sha1 = sha1(pipe_written)
        /\ has_sink => /\ sink_written = checksum
                       /\ report.sha1 = sha1(sink_written)

\* a stream of several blocks went to the pipe and to the sink file
C12_Witness ==
    /\ copy_pc = "exit0"
    /\ has_pipe
    /\ has_sink
    /\ Len(pipe_written) > COPY_BLOCK_SIZE
    /\ report.written

\* C13: the tail of the report is the last min(TAIL_LENGTH, length of the
\* stream) bytes of the stream, however the stream was split into blocks.
C13_TailIsEndOfStream ==
    report.written => report.tail = LastOf(stream, TAIL_LENGTH)

RECURSIVE NewlinesIn(_)
NewlinesIn(str) ==
    IF str = <<>> THEN 0
    ELSE (IF Head(str) = Newline THEN 1 ELSE 0) + NewlinesIn(Tail(str))

\* C14: every stream that is copied to its end gets a report; its length is
\* the number of bytes of the stream and its lines the number of newline
\* bytes, however the stream was split into blocks; the empty stream gets
\* length 0, lines 0, an empty tail and the hash of no bytes.
C14_LengthAndLines ==
    /\ (copy_pc = "read" /\ fin_pos = Len(stream)) => ENABLED CopyEof
    /\ copy_pc = "exit0" => report.written
    /\ report.written =>
          /\ report.length = Len(stream)
          /\ report.lines = NewlinesIn(stream)
          /\ stream = <<>> =>
                report = [written |-> TRUE, sha1 |-> sha1(<<>>), tail |-> <<>>,
                          length |-> 0, lines |-> 0]

\* a stream of several blocks with two newlines has been reported
C14_Witness ==
    /\ copy_pc = "exit0"
    /\ report.written
    /\ report.lines >= 2
    /\ report.length > COPY_BLOCK_SIZE

\* the listener was reaped after os._exit(1) or os._exit(2)
ShortWriteReaped(pid) ==
    /\ IsListener(pid)
    /\ "exit_code" \in DOMAIN proc_details[pid]
    /\ proc_details[pid].exit_code \in {1, 2}

\* C15: a listener that ended on a short write (exit status 1 for the sink
\* file, 2 for the pipe) has left no report, and the pool treats the run as
\* failed: the teardown is armed and _wait ends by raising "Pipeline
\* crashed.".
C15_ShortWriteFailsRun ==
    \A pid \in DOMAIN proc_details :
        ShortWriteReaped(pid) =>
            /\ "sha1" \notin DOMAIN proc_details[pid]
            /\ something_went_wrong
            /\ (WaitEnded \/ ExitEnded) =>
                  wait_error = "StandardError: Pipeline crashed."

\* what a write to the pipe comes to once the pipe is full: EPIPE when no
\* process holds the read end, else it is taken when the command reading the
\* pipe runs, else it blocks
WriteToPipe(pipe) ==
    IF pipe_read_fds[pipe] = {} THEN "EPIPE"
    ELSE IF \E c \in DOMAIN child_stdin :
                child_stdin[c] = pipe /\ child_state[c] = "running"
         THEN "written"
         ELSE "blocks"

\* C16: when the command reading a pipe has ended while the listener writing
\* the pipe still runs, the listener's write fails with a broken pipe; it
\* does not block.
C16_BrokenPipeWhenReaderEnded ==
    \A c \in DOMAIN child_stdin, l \in DOMAIN listener_pipe :
        (/\ child_stdin[c] # None
         /\ listener_pipe[l] = child_stdin[c]
         /\ child_state[c] # "running"
         /\ child_state[l] = "running")
            => WriteToPipe(child_stdin[c]) = "EPIPE"

\* C17: a reaped child has exactly one of exit_code and signal: after a
\* normal exit, exit_code is bits 8-15 of the status; after a signal, signal
\* is the number of the signal, bits 0-6 of the status, whether or not the
\* core-dump flag (bit 7) is set.
C17_StatusRecorded ==
    [][\A pid \in DOMAIN child_state, status \in WaitStatuses :
          Wait3Child(pid, status) =>
              LET details == proc_details'[pid]
              IN  /\ ("exit_code" \in DOMAIN details) # ("signal" \in DOMAIN details)
                  /\ status % 128 = 0 =>
                        /\ "exit_code" \in DOMAIN details
                        /\ details.exit_code = (status \div 256) % 256
                  /\ status % 128 # 0 =>
                        /\ "signal" \in DOMAIN details
                        /\ details.signal = status % 128]_vars

(***************************************************************************)
(* C18..C20: check_ping_files.                                             *)
(***************************************************************************)
\* the table names a stat command, and running it failed
StatFailed ==
    /\ get_cluster_command(cluster_config, "stat") = NoException
    /\ stat_result.exception \in StatFailures

StatSucceeded ==
    /\ get_cluster_command(cluster_config, "stat") = NoException
    /\ stat_result.exception = NoException

QueuedReported(task) ==
    \E i \in DOMAIN queue_problems : queue_problems[i][2] = <<task, "queued">>

\* C18: when running the stat command fails, no queued ping file is reported
\* as a problem and none is deleted, also with fix_problems, whatever job
\* ids the queued ping files hold.
C18_NoQueueProblemWhenStatFails ==
    StatFailed =>
        /\ queue_problems = <<>>
        /\ \A task \in DOMAIN ping_files : <<task, "queued">> \notin unlinked

\* stat failed, a task has a queued ping file, fix_problems deleted other
\* ping files
C18_Witness ==
    /\ StatFailed
    /\ ping_pc = "done"
    /\ fix_problems
    /\ ping_files[1].queued # NoFile
    /\ unlinked # {}

\* C19: with a command table that has no 'stat' entry, check_ping_files
\* ends without raising, with the queue check off.
C19_NoStatEntryDegrades ==
    (cluster_config.configured /\ "stat" \notin cluster_config.table) =>
        /\ ping_pc # "raised"
        /\ ping_pc \in {"parse", "tasks", "done"} => ~check_queue

\* the job id a line of stat output stands for: the integer its first field
\* starts with, up to the first '_'; written down line by line
LeadingInteger(line) ==
    CASE line = <<"7", " ", "R">> -> "7"
      [] line = <<" ", "1", "3", "_", "3", " ", "R">> -> "13"
      [] line = <<"1", "3", " ">> \o Completing -> "13"
      [] line = <<"0", "7">> -> "7"
      [] OTHER -> NoFile

LiveJobIds(output) ==
    {LeadingInteger(line) : line \in {l \in output : ~Contains(l, Completing)}}
        \ {NoFile}

\* C20: after a stat command that succeeded, the queued ping file of a task
\* is reported as a queue problem exactly when its job id is not among the
\* live job ids.
C20_ReportedIffNotLive ==
    (StatSucceeded /\ ping_pc = "done") =>
        \A task \in DOMAIN ping_files :
            ping_files[task].queued # NoFile =>
                (QueuedReported(task)
                    <=> ping_files[task].queued \notin LiveJobIds(stat_result.output))

\* a job in state COMPLETING is reported while another job is live
C20_Witness ==
    /\ StatSucceeded
    /\ ping_pc = "done"
    /\ ping_files[1].queued = "13"
    /\ QueuedReported(1)
    /\ (<<"1", "3", " ">> \o Completing) \in stat_result.output
    /\ running_jids # {}

(***************************************************************************)
(* C21, C28: what check_ping_files deletes.                                *)
(***************************************************************************)
PingEnded == ping_pc \in {"done", "raised"}

\* C21: without fix_problems check_ping_files unlinks nothing, whatever ping
\* files there are and whatever the stat command gives.
C21_NothingDeletedUnlessAsked ==
    ~fix_problems => unlinked = {}

\* a stale run, a dead queued job and a .bad file were found and left alone
C21_Witness ==
    /\ ~fix_problems
    /\ ping_pc = "done"
    /\ run_problems # <<>>
    /\ queue_problems # <<>>
    /\ bad_problems # <<>>
    /\ unlinked = {}

\* the files C28 names: the executing ping files of stale runs, the queued
\* ping files of jobs that are not live when stat succeeded, the .bad files
ProblemFiles ==
    {<<task, "executing">> : task \in {t \in DOMAIN ping_files : ping_files[t].stale}}
        \cup {<<task, "queued">> :
                 task \in {t \in DOMAIN ping_files :
                              /\ StatSucceeded
                              /\ ping_files[t].queued # NoFile
                              /\ ping_files[t].queued \notin LiveJobIds(stat_result.output)}}
        \cup {<<task, "queued.bad">> : task \in {t \in DOMAIN ping_files : ping_files[t].bad}}

\* C28: with fix_problems, the files check_ping_files has deleted when it
\* ends are exactly the executing ping files of stale runs, the queued ping
\* files of jobs that are not live (when stat succeeded) and the .bad files.
C28_DeletesExactlyTheProblems ==
    (fix_problems /\ PingEnded) => unlinked = ProblemFiles

(***************************************************************************)
(* C27: source_controller steps come first.                                *)
(***************************************************************************)
\* the steps placed before round r
PlacedBefore(r) == UNION {Range(build_rounds[i]) : i \in 1..(r - 1)}

\* the steps that were ready when round r began
ReadyIn(r) ==
    {s \in steps \ PlacedBefore(r) : dependencies[s] \subseteq PlacedBefore(r)}

Placed(s) == s \in Range(topological_step_order)

\* s has its place, and it is before the place of t if t has one
PlacedFirst(s, t) ==
    Placed(t) =>
        /\ Placed(s)
        /\ Position(topological_step_order, s) < Position(topological_step_order, t)

\* C27 as stated: a source_controller that is ready in a round is placed
\* before every other step that is ready in that round.
C27_SourceControllerBeforeAllReady ==
    \A r \in DOMAIN build_rounds : \A s, t \in ReadyIn(r) :
        (s # t /\ step_type[s] = "source_controller") => PlacedFirst(s, t)

\* C27 amended: a source_controller that is ready in a round is placed before
\* every step of another type that is ready in that round; a round with a
\* ready source_controller places one source_controller and nothing else.
C27_SourceControllerBeforeOtherTypes ==
    \A r \in DOMAIN build_rounds :
        /\ \A s, t \in ReadyIn(r) :
              (step_type[s] = "source_controller" /\ step_type[t] # "source_controller")
                  => PlacedFirst(s, t)
        /\ (\E s \in ReadyIn(r) : step_type[s] = "source_controller") =>
              /\ Len(build_rounds[r]) = 1
              /\ step_type[build_rounds[r][1]] = "source_controller"

\* a source_controller with a parent and a step of the other type were ready
\* in the same round, and both have been placed
C27_Witness ==
    /\ build_pc = "finalized"
    /\ \E r \in DOMAIN build_rounds : \E s, t \in ReadyIn(r) :
          /\ step_type[s] = "source_controller"
          /\ dependencies[s] # {}
          /\ step_type[t] = "step"

(***************************************************************************)
(* C30: the maps of the dependency index and their converses.              *)
(***************************************************************************)
Holds(d, k, v) == k \in DOMAIN d /\ v \in d[k]

\* C30: after any calls, p is in output_files_for_task_id[t] iff
\* task_id_for_output_file[p] is t, p is in input_files_for_task_id[t] iff t
\* is in task_ids_for_input_file[p], and i is in file_dependencies[o] iff o
\* is in file_dependencies_reverse[i].
C30_MapsAreConverses ==
    /\ \A p \in Paths, t \in TaskIds :
          Holds(output_files_for_task_id, t, p)
              <=> (p \in DOMAIN task_id_for_output_file /\ task_id_for_output_file[p] = t)
    /\ \A p \in Paths, t \in TaskIds :
          Holds(input_files_for_task_id, t, p) <=> Holds(task_ids_for_input_file, p, t)
    /\ \A o \in Paths, i \in Paths :
          Holds(file_dependencies, o, i) <=> Holds(file_dependencies_reverse, i, o)

\* an input path with two output paths, and both task maps in use
C30_Witness ==
    /\ \E i \in DOMAIN file_dependencies_reverse :
          Cardinality(file_dependencies_reverse[i]) = 2
    /\ task_id_for_output_file # EmptyDict
    /\ task_ids_for_input_file # EmptyDict

(***************************************************************************)
(* C22, C26: the task list and the wish list.                              *)
(***************************************************************************)

\* the constructor has collected the tasks of every step
TasksCollected ==
    \/ tasks_pc \in {"constructed", "returned"}
    \/ tasks_pc = "raised" /\ tasks_error # DuplicateTaskError

\* the (step, run id) pairs whose run has at least one exec group
ExecutableRuns ==
    {[step |-> s, run_id |-> r] :
        <<s, r>> \in {sr \in steps \X TaskRunIds :
                         /\ sr[2] \in DOMAIN runs[sr[1]]
                         /\ runs[sr[1]][sr[2]] > 0}}

\* C26: after construction all_tasks_topologically_sorted holds exactly one
\* task for each (step, run id) whose run has an exec group and none for a run
\* without, ordered by the topological step order and within a step by
\* naturally sorted run id; tasks_in_step[s] is its sub-list for step s.
C26_TaskListIsExecutableRunsInOrder ==
    TasksCollected =>
        LET all == all_tasks_topologically_sorted
        IN  /\ Range(all) = ExecutableRuns
            /\ \A i, j \in DOMAIN all : i # j => all[i] # all[j]
            /\ \A i, j \in DOMAIN all :
                  i < j =>
                     /\ Position(topological_step_order, all[i].step)
                           <= Position(topological_step_order, all[j].step)
                     /\ all[i].step = all[j].step
                           => <<all[j].run_id, all[i].run_id>> \notin NatLess
            /\ DOMAIN tasks_in_step = steps
            /\ \A s \in steps :
                  tasks_in_step[s] = SelectSeq(all, LAMBDA task : task.step = s)

\* two steps, a run without exec groups, and a step with two tasks in the list
C26_Witness ==
    /\ tasks_pc = "constructed"
    /\ Len(topological_step_order) = 2
    /\ \E s \in steps : \E r \in DOMAIN runs[s] : runs[s][r] = 0
    /\ \E i \in DOMAIN all_tasks_topologically_sorted :
          /\ i > 1
          /\ all_tasks_topologically_sorted[i].step
                = all_tasks_topologically_sorted[i - 1].step

\* p is the start of the string s
IsStartOf(p, s) == \E n \in 0..Len(s) : SubSeq(s, 1, n) = p

\* the executable tasks whose id starts with the pattern
TasksStarting(pattern) ==
    {task \in Range(all_tasks_topologically_sorted) :
        IsStartOf(pattern, TaskStr(task))}

\* C22 (as stated): with an empty wish list and exclusive false
\* get_task_with_list returns all executable tasks in topological order; with
\* a wish list it returns, for every pattern, every executable task whose id
\* starts with the pattern.
C22_EveryTaskOfEveryPattern ==
    tasks_pc = "returned" =>
        IF specified_tasks = <<>>
        THEN ~exclusive => task_wish_list = all_tasks_topologically_sorted
        ELSE \A i \in DOMAIN specified_tasks :
                TasksStarting(specified_tasks[i]) \subseteq Range(task_wish_list)

\* C22 (amended): with an empty wish list the result is every executable task
\* in topological order, or nothing when exclusive; a pattern that is the id
\* of a task selects that task alone, executable or not, and any other
\* pattern selects every executable task whose id starts with it; nothing
\* else is returned, and a wish list that selects nothing raises.
C22_ExactIdElsePrefix ==
    /\ tasks_pc = "returned" =>
          IF specified_tasks = <<>>
          THEN task_wish_list =
                  IF exclusive THEN <<>> ELSE all_tasks_topologically_sorted
          ELSE /\ task_wish_list # <<>>
               /\ \A i \in DOMAIN specified_tasks :
                     IF specified_tasks[i] \in DOMAIN task_for_task_id
                     THEN task_for_task_id[specified_tasks[i]]
                             \in Range(task_wish_list)
                     ELSE TasksStarting(specified_tasks[i])
                             \subseteq Range(task_wish_list)
               /\ \A task \in Range(task_wish_list) :
                     \E i \in DOMAIN specified_tasks :
                        \/ TaskStr(task) = specified_tasks[i]
                        \/ /\ specified_tasks[i] \notin DOMAIN task_for_task_id
                           /\ task \in TasksStarting(specified_tasks[i])
    /\ (tasks_pc = "raised" /\ tasks_error = NoMatchError) =>
          /\ specified_tasks # <<>>
          /\ \A i \in DOMAIN specified_tasks :
                /\ specified_tasks[i] \notin DOMAIN task_for_task_id
                /\ TasksStarting(specified_tasks[i]) = {}

\* a pattern that is the id of one task and the start of the id of another,
\* executable task, which is not returned
C22_Witness ==
    /\ tasks_pc = "returned"
    /\ Len(specified_tasks) = 1
    /\ specified_tasks[1] \in DOMAIN task_for_task_id
    /\ Len(task_wish_list) = 1
    /\ \E task \in TasksStarting(specified_tasks[1]) :
          task \notin Range(task_wish_list)

(***************************************************************************)
(* C23: autodetect_cluster_type.                                           *)
(***************************************************************************)

\* the output of the identity test of the i-th type starts with an answer
TypeMatches(i) ==
    /\ cluster_table[i].missing = ""
    /\ cluster_table[i].outcome.raises = ""
    /\ \E k \in DOMAIN cluster_table[i].answer.items :
          IsStartOf(cluster_table[i].answer.items[k],
                    cluster_table[i].outcome.stdout)

MatchingTypes == {i \in DOMAIN cluster_table : TypeMatches(i)}

\* C23: autodetect_cluster_type returns a cluster type only if the stdout of
\* its identity_test starts with one of its identity_answer strings; it
\* returns the first such type of the command table, and None with a warning
\* when no type matches.
C23_FirstMatchingTypeOrNone ==
    detect_pc \in {"returned", "raised"} =>
        /\ detect_pc = "returned"
        /\ IF MatchingTypes = {}
           THEN detect_result = "None" /\ detect_warned
           ELSE \E i \in MatchingTypes :
                   /\ detect_result = ClusterTypeNames[i]
                   /\ \A j \in MatchingTypes : i <= j

(***************************************************************************)
(* C24: get_cluster_command_cli_option on a list of fragments.             *)
(***************************************************************************)

\* a '%s' of the fragment begins at place i
PlaceholderAt(part, i) ==
    i \in DOMAIN part /\ i < Len(part) /\ part[i] = "%" /\ part[i + 1] = "s"

Placeholders(part) == {i \in DOMAIN part : PlaceholderAt(part, i)}

\* the number of placeholders in the fragments before the j-th
PlaceholdersBefore(parts, j) ==
    Cardinality(UNION {{<<f, i>> : i \in Placeholders(parts[f])} :
                          f \in 1..(j - 1)})

TotalPlaceholders(parts) == PlaceholdersBefore(parts, Len(parts) + 1)

\* the fragment from place i on, its placeholders replaced by the values from
\* the k-th on
RECURSIVE Replaced(_, _, _, _)
Replaced(part, i, values, k) ==
    IF i > Len(part) THEN <<>>
    ELSE IF PlaceholderAt(part, i)
    THEN values[k] \o Replaced(part, i + 2, values, k + 1)
    ELSE <<part[i]>> \o Replaced(part, i + 1, values, k)

\* every '%' of the fragment begins a '%s'
OnlyPlaceholders(part) ==
    \A i \in DOMAIN part : part[i] = "%" => PlaceholderAt(part, i)

\* one element per fragment, the k-th placeholder replaced by the k-th value
FilledAsCounted ==
    /\ Len(option_result) = Len(option_entry.parts)
    /\ \A j \in DOMAIN option_entry.parts :
          /\ ~option_result[j].is_value
          /\ option_result[j].text =
                Replaced(option_entry.parts[j], 1, option_value.items,
                         PlaceholdersBefore(option_entry.parts, j) + 1)

\* C24 (as stated): for a list of fragments the call raises unless the number
\* of values equals the number of '%s' placeholders; otherwise the result has
\* one element per fragment, a fragment without placeholder unchanged, the
\* k-th placeholder replaced by the k-th value.
C24_FilledUnlessCountDiffers ==
    (option_entry.kind = "list" /\ option_pc # "call") =>
        IF Len(option_value.items) # TotalPlaceholders(option_entry.parts)
        THEN option_pc = "raised"
        ELSE option_pc = "returned" /\ FilledAsCounted

\* C24 (amended): for a list of fragments the call raises UAPError unless the
\* number of values equals the number of occurrences of '%s'; otherwise, when
\* every '%' of the fragments begins a '%s', the result is as stated; a
\* fragment with a '%s' and another '%' goes through the % operator, which
\* writes '%%' as '%' or raises; the result always has one element per
\* fragment, the fragments without '%s' unchanged.
C24_FilledWhenOnlyPlaceholders ==
    (option_entry.kind = "list" /\ option_pc # "call") =>
        /\ (option_pc = "raised" /\ option_error = WrongNumberOfValues)
              <=> Len(option_value.items) # TotalPlaceholders(option_entry.parts)
        /\ (/\ Len(option_value.items) = TotalPlaceholders(option_entry.parts)
            /\ \A j \in DOMAIN option_entry.parts :
                  OnlyPlaceholders(option_entry.parts[j]))
              => option_pc = "returned" /\ FilledAsCounted
        /\ option_pc = "returned" =>
              /\ Len(option_result) = Len(option_entry.parts)
              /\ \A j \in DOMAIN option_entry.parts :
                    Placeholders(option_entry.parts[j]) = {}
                       => option_result[j] = Text(option_entry.parts[j])
        /\ (option_pc = "raised" /\ option_error # WrongNumberOfValues) =>
              \E j \in DOMAIN option_entry.parts :
                 ~OnlyPlaceholders(option_entry.parts[j])

\* two fragments with a placeholder each, filled with two different values
C24_Witness ==
    /\ option_pc = "returned"
    /\ option_entry.kind = "list"
    /\ Len(option_entry.parts) = 2
    /\ \A j \in DOMAIN option_entry.parts :
          Cardinality(Placeholders(option_entry.parts[j])) = 1
    /\ Len(option_value.items) = 2
    /\ option_value.items[1] # option_value.items[2]

(***************************************************************************)
(* C25: check_tools.                                                       *)
(***************************************************************************)

\* C25: check_tools returns only with an entry in tool_versions for every
\* configured tool; when the check of a tool fails it raises with the pool
\* terminated; never more than 4 checks are in progress at once.
C25_AllToolsOrRaise ==
    /\ tools_pc = "returned" =>
          /\ tool_versions = tools
          /\ \A t \in tools : tool_state[t] = "taken"
    /\ tools_pc = "raised" =>
          /\ pool_state = "terminated"
          /\ InProgress = {}
          /\ \E t \in tools : tool_state[t] = "raised"
    /\ Cardinality(InProgress) <= 4
    /\ max_in_progress <= 4

\* a failed check ends check_tools while four checks had been running and a
\* fifth tool was still waiting for a worker
C25_Witness ==
    /\ tools_pc = "raised"
    /\ pool_state = "terminated"
    /\ max_in_progress = 4
    /\ \E t \in tools : tool_state[t] = "queued"
    /\ \E t \in tools : tool_state[t] = "killed"

(***************************************************************************)
(* C29: the order of the commands of check_tool.                           *)
(***************************************************************************)

ProbeCalls == {i \in DOMAIN tool_calls : tool_calls[i].key = "probe"}

\* the calls under a key come before the calls under keys later in the list
InOrderOf(keys, calls) ==
    \A i, j \in DOMAIN calls :
       i < j => \E a, b \in DOMAIN keys :
                   a <= b /\ calls[i].key = keys[a] /\ calls[j].key = keys[b]

\* every command configured under the keys has run to its end
AllCompleted(keys, calls) ==
    \A k \in DOMAIN keys :
       keys[k] \in DOMAIN tool_info.commands =>
          Cardinality({i \in DOMAIN calls :
                          calls[i].key = keys[k] /\ calls[i].result = "ok"})
             = tool_info.commands[keys[k]]

\* C29: the configured module_load and pre_command commands, in that order,
\* have completed before the version probe is started; module_unload and
\* post_command, in that order, run after the probe and only when its exit
\* code is the expected one; on a mismatch the error is raised without them.
C29_PreBeforeProbeBeforePost ==
    /\ Cardinality(ProbeCalls) <= 1
    /\ ProbeCalls = {} =>
          InOrderOf(<<"module_load", "pre_command">>, tool_calls)
    /\ \A p \in ProbeCalls :
          LET before == SubSeq(tool_calls, 1, p - 1)
              after  == SubSeq(tool_calls, p + 1, Len(tool_calls))
          IN  /\ InOrderOf(<<"module_load", "pre_command">>, before)
              /\ AllCompleted(<<"module_load", "pre_command">>, before)
              /\ InOrderOf(<<"module_unload", "post_command">>, after)
              /\ after # <<>> =>
                    /\ tool_calls[p].result = "ok"
                    /\ tool_calls[p].exit_code = expected_exit_code
              /\ (tool_calls[p].result = "ok"
                  /\ tool_calls[p].exit_code # expected_exit_code) =>
                    /\ tool_pc = "raised"
                    /\ after = <<>>
              /\ tool_pc = "returned" =>
                    AllCompleted(<<"module_unload", "post_command">>, after)

\* all four keys configured, the probe answered as expected, all commands run
C29_Witness ==
    /\ tool_pc = "returned"
    /\ DOMAIN tool_info.commands = InfoKeys
    /\ Len(tool_calls) >= 5

(***************************************************************************)
(* C34: the tasks get_task_with_list hands back.                           *)
(***************************************************************************)

\* C34: every task get_task_with_list returns is an executable task, an
\* element of all_tasks_topologically_sorted; a run without exec groups is
\* never returned, also when a pattern is exactly its task id.
C34_OnlyExecutableTasksReturned ==
    tasks_pc = "returned" =>
        Range(task_wish_list) \subseteq Range(all_tasks_topologically_sorted)

(***************************************************************************)
(* C35, C36: the end of check_ping_files.                                  *)
(***************************************************************************)

\* C35: 'No problematic ping files were found.' is printed only when no
\* stale executing ping file, no queued ping file of a dead job and no
\* .queued.bad file was found.
C35_NoProblemsMeansNoneFound ==
    no_problems_printed =>
        run_problems = <<>> /\ queue_problems = <<>> /\ bad_problems = <<>>

\* C36: when another process removes a ping file between the moment it is
\* recorded as a problem and the moment it is deleted, check_ping_files with
\* fix_problems still completes without error and deletes all the problem
\* files that remain.
C36_RemovedFileIsNoError ==
    (fix_problems /\ PingEnded /\ task_pos > Len(ping_files)) =>
        /\ ping_pc = "done"
        /\ unlinked = {path \in ProblemFiles : OnDisk(ping_files, path)}

(***************************************************************************)
(* C32: the order as a function of the configuration.                      *)
(***************************************************************************)

\* C32: topological_step_order is a function of the step names, step types
\* and _depends lists: in a configuration without a cycle every round of the
\* ordering loop can place one list of steps only, whatever the order in
\* which the set of unassigned steps is gone through, several ready
\* source_controller steps included.
C32_OrderIsFunctionOfConfiguration ==
    (build_pc = "sort" /\ unassigned_steps # {} /\ ~HasCycle) =>
        Cardinality(NextSteps) = 1

(***************************************************************************)
(* C38: the SIGTERM deadline.                                              *)
(***************************************************************************)

\* C38: the SIGTERM deadline is fixed by the first failing child: while the
\* alarm is armed no step of _wait moves it further away, so a child that
\* fails during the grace period does not postpone the SIGTERM.
C38_DeadlineNotPostponed ==
    [][(alarm > 0 /\ alarm' > 0) => alarm' <= alarm]_vars

\* C37: when the body of the with block raised, leaving the block starts no
\* child process
C37_NoLaunchAfterBodyRaised ==
    exit_type # NoException => proc_order = <<>>

\* no command is left running with its input at end-of-file
NoCommandLeftAtEof ==
    \A pid \in DOMAIN child_stdin : child_state[pid] = "running" => ~AtEof(pid)

\* a command that has ended had read its input to end-of-file
EndedOnlyAtEof ==
    \A pid \in DOMAIN child_stdin : child_state[pid] # "running" => AtEof(pid)

\* every child reaped so far, command or listener, had status 0
AllStatusesZero ==
    \A pid \in DOMAIN child_state :
        child_state[pid] = "reaped" =>
            "exit_code" \in DOMAIN proc_details[pid] /\ proc_details[pid].exit_code = 0

WaitsInOpen(c) ==
    /\ Running(c)
    /\ Cur(c).op \in {"r", "w"}
    /\ ~cmd_open[c]
    /\ path_kind[Cur(c).path] = "fifo"

\* the commands that open, at some step, the other end of the path c is at
OtherEnds(c) ==
    {d \in 1..Len(exec_group) :
        \E i \in DOMAIN exec_group[d].plan :
            /\ exec_group[d].plan[i].path = Cur(c).path
            /\ exec_group[d].plan[i].op \in {"r", "w"} \ {Cur(c).op}}

\* C40: when every command is started only after the one before it has
\* ended, no command waits in open() of a FIFO whose other end only commands
\* not yet started open
C40_NoWaitForLaterCommand ==
    strict => \A c \in 1..n_started :
                  WaitsInOpen(c) => \E d \in OtherEnds(c) : d <= n_started

\* the rows a line of the table is to give: mark and control file for a
\* line of four entries, the control files being those of the run the fourth
\* entry names; the mark file alone for a line of three (and for a control
\* run without files)
TableRowsOf(files, line) ==
    LET marks == files[line[3]]
        controls == IF Len(line) = 4 THEN files[line[4]] ELSE <<>>
        mc == Pairs(marks, controls)
    IN  IF controls # <<>>
        THEN [i \in DOMAIN mc |->
                 Bol(line) \o <<LinkName(mc[i][1]), LinkName(mc[i][2])>>]
        ELSE [i \in DOMAIN marks |-> Bol(line) \o <<LinkName(marks[i])>>]

RECURSIVE TableOf(_, _)
TableOf(files, lines) ==
    IF lines = <<>> THEN <<>>
    ELSE TableRowsOf(files, Head(lines)) \o TableOf(files, Tail(lines))

\* C31: the rows of a line with four entries name the files of the run of the
\* fourth entry as controls, the rows of a line with three entries name the
\* mark file only
C31_ControlsOfFourthEntry ==
    chrom_pc = "done" =>
        cellmarkfiletable = TableOf(connections_files, cell_mark_lines)

\* C33: build_steps makes one step per step key: with two keys of the same
\* step name it does not get through step one
C33_OneStepPerKey ==
    keys_pc = "done" => Cardinality(DOMAIN step_objects) = Len(config_steps)

====
